---- MODULE Spec2Model ----
(***************************************************************************)
(* Model of the FFmpeg Lambda of pba-lambda: the S3-event handler and the  *)
(* MP4 -> HLS conversion of src/src/video-processing-handler.ts.           *)
(*                                                                         *)
(* Strings are TLA+ strings; the JavaScript string and path functions the  *)
(* code calls are operators that compute what the functions compute.      *)
(* A step of the program that awaits an external collaborator (S3, the     *)
(* file system, the ffmpeg subprocess) is one action per outcome.          *)
(***************************************************************************)
EXTENDS Integers, Sequences, FiniteSets, TLC

(***************************************************************************)
(* Bounds of the model.                                                    *)
(***************************************************************************)
\* Longest batch of S3 records one invocation receives.
MaxRecords == 2
\* Most segment files one ffmpeg invocation writes.
MaxSegs == 2
\* Largest step of Date.now() from one run to the next.
MaxTick == 1
\* The largest segment index the naming of segments is checked for
MaxIndex == 1000

(***************************************************************************)
(* JavaScript string functions.                                            *)
(***************************************************************************)
UpperLetters == "ABCDEFGHIJKLMNOPQRSTUVWXYZ"
LowerLetters == "abcdefghijklmnopqrstuvwxyz"
HexDigits == "0123456789ABCDEF"
CharAt(s, i) == SubSeq(s, i, i)

\* Positions of the one-character string c in s.
Positions(s, c) == {i \in 1..Len(s) : CharAt(s, i) = c}

Max(S) == CHOOSE m \in S : \A n \in S : n <= m

\* String.prototype.endsWith
endsWith(s, suffix) ==
  /\ Len(suffix) <= Len(s)
  /\ SubSeq(s, Len(s) - Len(suffix) + 1, Len(s)) = suffix

\* String.prototype.includes
includes(s, part) ==
  \E i \in 1..(Len(s) - Len(part) + 1) : SubSeq(s, i, i + Len(part) - 1) = part

\* The lower-case letter of each upper-case letter
LowerOf ==
  [c \in {CharAt(UpperLetters, i) : i \in 1..Len(UpperLetters)} |->
     CharAt(LowerLetters, CHOOSE i \in 1..Len(UpperLetters) : CharAt(UpperLetters, i) = c)]

toLowerChar(c) == IF c \in DOMAIN LowerOf THEN LowerOf[c] ELSE c

\* String.prototype.toLowerCase
RECURSIVE toLowerCase(_)
toLowerCase(s) ==
  IF s = "" THEN "" ELSE toLowerChar(Head(s)) \o toLowerCase(Tail(s))

\* key.replace(/\+/g, " ")
RECURSIVE replacePlus(_)
replacePlus(s) ==
  IF s = "" THEN ""
  ELSE (IF Head(s) = "+" THEN " " ELSE Head(s)) \o replacePlus(Tail(s))

HexVal(c) == Max(Positions(HexDigits, c) \cup Positions("0123456789abcdef", c)) - 1
IsHex(c) == Positions(HexDigits, c) \cup Positions("0123456789abcdef", c) # {}

\* The character of an ASCII code point: letters, digits and the punctuation
\* that occurs in the modelled keys; "" for every other code point.
fromCharCode(code) ==
  IF code >= 48 /\ code <= 57 THEN CharAt(HexDigits, code - 47)
  ELSE IF code >= 65 /\ code <= 90 THEN CharAt(UpperLetters, code - 64)
  ELSE IF code >= 97 /\ code <= 122 THEN CharAt(LowerLetters, code - 96)
  ELSE IF code = 32 THEN " "
  ELSE IF code = 37 THEN "%"
  ELSE IF code = 43 THEN "+"
  ELSE IF code = 45 THEN "-"
  ELSE IF code = 46 THEN "."
  ELSE IF code = 47 THEN "/"
  ELSE IF code = 95 THEN "_"
  ELSE ""

\* decodeURIComponent: [ok |-> TRUE, value |-> decoded] or, where the code
\* throws URIError (a "%" not followed by two hex digits), [ok |-> FALSE,
\* value |-> ""]. An escape of a code point outside fromCharCode's alphabet
\* is outside the model and is reported as an error too.
RECURSIVE decodeURIComponent(_)
decodeURIComponent(s) ==
  IF s = "" THEN [ok |-> TRUE, value |-> ""]
  ELSE IF Head(s) # "%"
    THEN LET rest == decodeURIComponent(Tail(s))
         IN  [ok |-> rest.ok, value |-> IF rest.ok THEN Head(s) \o rest.value ELSE ""]
  ELSE IF Len(s) < 3 \/ ~IsHex(CharAt(s, 2)) \/ ~IsHex(CharAt(s, 3))
    THEN [ok |-> FALSE, value |-> ""]
  ELSE LET code == 16 * HexVal(CharAt(s, 2)) + HexVal(CharAt(s, 3))
           rest == decodeURIComponent(SubSeq(s, 4, Len(s)))
       IN  IF fromCharCode(code) = "" \/ ~rest.ok
             THEN [ok |-> FALSE, value |-> ""]
             ELSE [ok |-> TRUE, value |-> fromCharCode(code) \o rest.value]

(***************************************************************************)
(* Node's posix path functions, for paths that do not end in a slash (an   *)
(* accepted key ends in the four characters of the suffix).                *)
(***************************************************************************)
\* Position of the last "/" of p, 0 when there is none.
LastSlash(p) == Max(Positions(p, "/") \cup {0})

\* path.dirname
dirname(p) ==
  IF p = "" THEN "."
  ELSE IF LastSlash(p) = 0 THEN "."
  ELSE IF LastSlash(p) = 1 THEN "/"
  ELSE SubSeq(p, 1, LastSlash(p) - 1)

\* path.basename(p, ext)
basename(p, ext) ==
  LET base == SubSeq(p, LastSlash(p) + 1, Len(p))
  IN  IF p = ext THEN ""
      ELSE IF endsWith(base, ext) /\ base # ext
        THEN SubSeq(base, 1, Len(base) - Len(ext))
      ELSE base

\* path.join(dir, name) for a normalised dir and a plain file name
join(dir, name) == dir \o "/" \o name

\* Faulty variant of Pad3: the index is cut to its last three digits
Pad3_ThreeDigitsOnly(i) ==
  IF i % 1000 < 10 THEN "00" \o ToString(i % 1000)
  ELSE IF i % 1000 < 100 THEN "0" \o ToString(i % 1000)
  ELSE ToString(i % 1000)

\* printf-style %03d of ffmpeg's -hls_segment_filename
Pad3(i) ==
  IF i < 10 THEN "00" \o ToString(i)
  ELSE IF i < 100 THEN "0" \o ToString(i)
  ELSE ToString(i)

(***************************************************************************)
(* Program constants.                                                      *)
(***************************************************************************)
\* process.env.FFMPEG_PATH as the stack sets it
FFMPEG_PATH == "./ffmpeg"
\* process.env.AWS_REGION || "us-east-1"
AWS_REGION == "us-east-1"
\* process.pid: one Node process serves the whole invocation
pid == 8
\* Faulty variant of qualities: 720p comes before 480p
qualities_Reordered == <<"720p", "480p", "1080p">>
\* The tiers in the order convertMp4ToHls encodes and uploadHlsFiles pushes them
qualities == <<"480p", "720p", "1080p">>
\* s3Record.s3.bucket.name: every record of the batch names the same bucket
\* The configurations convertMp4ToHls passes to generateQualityHLS, in order
qualityConfigs ==
  <<[name |-> "480p", width |-> 854, height |-> 480, videoBitrate |-> "1000k",
     audioBitrate |-> "128k", bufferSize |-> "2000k", crf |-> 23],
    [name |-> "720p", width |-> 1280, height |-> 720, videoBitrate |-> "2500k",
     audioBitrate |-> "128k", bufferSize |-> "5000k", crf |-> 21],
    [name |-> "1080p", width |-> 1920, height |-> 1080, videoBitrate |-> "5000k",
     audioBitrate |-> "192k", bufferSize |-> "10000k", crf |-> 20]>>

sourceBucket == "bkt"
\* The value of an absent (undefined) error field
NoError == "<undefined>"

(***************************************************************************)
(* Inputs: the raw (URL-encoded) object keys a record may carry.           *)
(***************************************************************************)
RawKeys ==
  { "a/v.mp4",          \* a plain source
    "v.mp4",            \* the same base name, at the bucket root
    "a/v.MP4",          \* upper-case suffix
    "a/v%5F480p.mp4",   \* decodes to "a/v_480p.mp4": an .mp4 named like an output
    "a/t+1.png",        \* decodes to "a/t 1.png": not an .mp4
    "a/%zz.mp4" }       \* malformed percent escape

RECURSIVE SeqsUpTo(_, _)
SeqsUpTo(S, n) ==
  IF n = 0 THEN {<<>>}
  ELSE LET shorter == SeqsUpTo(S, n - 1)
       IN  shorter \cup {Append(q, k) : q \in {r \in shorter : Len(r) = n - 1}, k \in S}

Batches == SeqsUpTo(RawKeys, MaxRecords)

\* The record keys of the MediaConvert handler's batches: those above, and a
\* malformed key that is not an .mp4 by its suffix either
McRawKeys == RawKeys \cup {"a/%zz.png"}

McBatches == SeqsUpTo(McRawKeys, MaxRecords)

(***************************************************************************)
(* State.                                                                  *)
(***************************************************************************)
VARIABLES
  records,        \* event.Records: the raw keys of the batch
  idx,            \* position of the for-of loop of the handler in records
  pc,             \* where the invocation is: the handler loop or a stage of the run
  processingResults, \* the handler's result list
  s3Key,          \* convertMp4ToHls: the decoded source key of the run
  videoDir,       \* convertMp4ToHls: path.dirname(s3Key)
  videoName,      \* convertMp4ToHls: path.basename(s3Key, ".mp4")
  tempInput,      \* convertMp4ToHls: local input file path
  tempOutput,     \* convertMp4ToHls: local output directory path
  tier,           \* index in qualities of the next tier to encode
  segments,       \* number of segments ffmpeg cuts the input of the run into
  queue,          \* uploadHlsFiles: manifests still to upload, in order
  segmentFiles,   \* uploadHlsFiles: segment files of the readdir not yet uploaded
  uploadedFiles,  \* uploadHlsFiles: keys uploaded so far
  error,          \* the error thrown by the failed stage, NoError when none
  now,            \* the last value Date.now() returned
  store,          \* the bucket: a set of objects, one per key
  disk,           \* the local files under /tmp
  log,            \* history: every external operation attempted, in order
  runs            \* history: the scratch names of every run started

runVars == <<s3Key, videoDir, videoName, tempInput, tempOutput, tier, segments, queue,
             segmentFiles, uploadedFiles, error>>
vars == <<records, idx, pc, processingResults, runVars, now, store, disk, log, runs>>

\* decodeURIComponent(key.replace(/\+/g, " ")) of every record key of the batches
DecodedKeys == [rawKey \in McRawKeys |-> decodeURIComponent(replacePlus(rawKey))]

\* The decoded key of record i: decodeURIComponent(key.replace(/\+/g, " "))
sourceKey(i) == DecodedKeys[records[i]]

\* Faulty variant of isMp4: the suffix is compared without lower-casing the key
isMp4_CaseSensitive(key) == endsWith(key, ".mp4")

\* Faulty variant of isMp4: the suffix filter is missing
isMp4_FilterMissing(key) == TRUE

\* The handler's input filter
isMp4(key) == endsWith(toLowerCase(key), ".mp4")

\* The handler's second filter: the key looks like one of the outputs
isProcessedOutput(key) ==
  includes(key, "_480p") \/ includes(key, "_720p") \/ includes(key, "_1080p")

\* An object of the bucket
Object(key, contentType, cacheControl, body) ==
  [key |-> key, contentType |-> contentType, cacheControl |-> cacheControl, body |-> body]

\* PutObject: the object replaces whatever the key held
PutObject(objects, obj) == {o \in objects : o.key # obj.key} \cup {obj}

\* A local file
File(path, body) == [path |-> path, body |-> body]

\* Writing local files replaces whatever their paths held
WriteFiles(files, new) ==
  {f \in files : ~\E g \in new : g.path = f.path} \cup new

startsWith(s, prefix) ==
  /\ Len(prefix) <= Len(s)
  /\ SubSeq(s, 1, Len(prefix)) = prefix

\* fs.readdir(dir): the names of the entries directly in dir
readdir(files, dir) ==
  {SubSeq(f.path, Len(dir) + 2, Len(f.path)) :
     f \in {g \in files : /\ startsWith(g.path, dir \o "/")
                          /\ LastSlash(g.path) = Len(dir) + 1}}

\* fs.unlink(path)
unlink(files, path) == {f \in files : f.path # path}

\* fs.rm(dir, { recursive: true, force: true })
rm(files, dir) == {f \in files : f.path # dir /\ ~startsWith(f.path, dir \o "/")}

\* An entry of the history of external operations
LogEntry(op, arg, ok) == [op |-> op, rec |-> idx, arg |-> arg, ok |-> ok]

\* The objects the event notifications announce: one per decodable record key
SourceObjects(batch) ==
  {Object(decodeURIComponent(replacePlus(batch[i])).value, "video/mp4", "", "mp4") :
     i \in {j \in 1..Len(batch) : decodeURIComponent(replacePlus(batch[j])).ok}}

Init ==
  /\ records \in Batches
  /\ idx = 1
  /\ pc = "loop"
  /\ processingResults = <<>>
  /\ s3Key = ""
  /\ videoDir = ""
  /\ videoName = ""
  /\ tempInput = ""
  /\ tempOutput = ""
  /\ tier = 1
  /\ segments = 0
  /\ queue = <<>>
  /\ segmentFiles = {}
  /\ uploadedFiles = <<>>
  /\ error = NoError
  /\ now = 0
  /\ store = SourceObjects(records)
  /\ disk = {}
  /\ log = <<>>
  /\ runs = <<>>

(***************************************************************************)
(* handler: the loop over event.Records.                                   *)
(***************************************************************************)
\* decodeURIComponent throws URIError: the call is outside the try block, so
\* the exception leaves the handler.
DecodeThrows ==
  /\ pc = "loop"
  /\ idx <= Len(records)
  /\ ~sourceKey(idx).ok
  /\ pc' = "thrown"
  /\ UNCHANGED <<records, idx, processingResults, runVars, now, store, disk, log, runs>>

\* if (!sourceKey.toLowerCase().endsWith(".mp4")) continue;
SkipNotMp4 ==
  /\ pc = "loop"
  /\ idx <= Len(records)
  /\ sourceKey(idx).ok
  /\ ~isMp4(sourceKey(idx).value)
  /\ idx' = idx + 1
  /\ UNCHANGED <<records, pc, processingResults, runVars, now, store, disk, log, runs>>

\* if (sourceKey.includes("_480p") || ...) continue;
SkipProcessedOutput ==
  /\ pc = "loop"
  /\ idx <= Len(records)
  /\ sourceKey(idx).ok
  /\ isMp4(sourceKey(idx).value)
  /\ isProcessedOutput(sourceKey(idx).value)
  /\ idx' = idx + 1
  /\ UNCHANGED <<records, pc, processingResults, runVars, now, store, disk, log, runs>>

\* The scratch names of a run
TempInput(name, time) ==
  "/tmp/" \o name \o "_" \o ToString(time) \o "_" \o ToString(pid) \o ".mp4"
TempOutput(name) == "/tmp/" \o name \o "_hls_" \o ToString(pid)

\* await convertMp4ToHls(sourceBucket, sourceKey): the first four statements
StartConvert ==
  /\ pc = "loop"
  /\ idx <= Len(records)
  /\ sourceKey(idx).ok
  /\ isMp4(sourceKey(idx).value)
  /\ ~isProcessedOutput(sourceKey(idx).value)
  /\ \E tick \in 1..MaxTick :
       LET key == sourceKey(idx).value
           name == basename(key, ".mp4")
       IN  /\ now' = now + tick
           /\ s3Key' = key
           /\ videoDir' = dirname(key)
           /\ videoName' = name
           /\ tempInput' = TempInput(name, now + tick)
           /\ tempOutput' = TempOutput(name)
           /\ runs' = Append(runs, [rec |-> idx, key |-> key,
                                    tempInput |-> TempInput(name, now + tick),
                                    tempOutput |-> TempOutput(name)])
           /\ log' = Append(log, LogEntry("convertMp4ToHls", key, TRUE))
  /\ tier' = 1
  /\ segments' = 0
  /\ queue' = <<>>
  /\ segmentFiles' = {}
  /\ uploadedFiles' = <<>>
  /\ error' = NoError
  /\ pc' = "download"
  /\ UNCHANGED <<records, idx, processingResults, store, disk>>

\* Control leaves the try block of convertMp4ToHls with an exception
Throw(message) ==
  /\ error' = message
  /\ pc' = "catch"

(***************************************************************************)
(* convertMp4ToHls: download, mkdir, validate.                             *)
(***************************************************************************)
\* downloadMp4FromS3 resolves: the object is written to tempInput
DownloadOk ==
  /\ pc = "download"
  /\ \E o \in store : o.key = s3Key
  /\ disk' = WriteFiles(disk, {File(tempInput, "mp4")})
  /\ log' = Append(log, LogEntry("GetObject", s3Key, TRUE))
  /\ pc' = "mkdir"
  /\ UNCHANGED <<records, idx, processingResults, s3Key, videoDir, videoName, tempInput,
                 tempOutput, tier, segments, queue, segmentFiles, uploadedFiles, error, now, store, runs>>

\* downloadMp4FromS3 rejects: GetObject fails (nothing written), or a stream
\* fails after createWriteStream created the file.
DownloadFail ==
  /\ pc = "download"
  /\ \E partial \in BOOLEAN :
       /\ disk' = IF partial THEN WriteFiles(disk, {File(tempInput, "partial")})
                  ELSE disk
       /\ Throw(IF partial THEN "read ECONNRESET" ELSE "Access Denied")
  /\ log' = Append(log, LogEntry("GetObject", s3Key, FALSE))
  /\ UNCHANGED <<records, idx, processingResults, s3Key, videoDir, videoName, tempInput,
                 tempOutput, tier, segments, queue, segmentFiles, uploadedFiles, now, store, runs>>

\* fs.mkdir(tempOutput, { recursive: true }): an existing directory is kept
MkdirOk ==
  /\ pc = "mkdir"
  /\ log' = Append(log, LogEntry("mkdir", tempOutput, TRUE))
  /\ pc' = "validate"
  /\ UNCHANGED <<records, idx, processingResults, runVars, now, store, disk, runs>>

\* Faulty variant of MkdirFail: the failure of fs.mkdir is ignored and the run goes on
MkdirFail_Ignored ==
  /\ pc = "mkdir"
  /\ log' = Append(log, LogEntry("mkdir", tempOutput, FALSE))
  /\ pc' = "validate"
  /\ UNCHANGED <<records, idx, processingResults, runVars, now, store, disk, runs>>

MkdirFail ==
  /\ pc = "mkdir"
  /\ log' = Append(log, LogEntry("mkdir", tempOutput, FALSE))
  /\ Throw("ENOSPC: no space left on device, mkdir")
  /\ UNCHANGED <<records, idx, processingResults, s3Key, videoDir, videoName, tempInput,
                 tempOutput, tier, segments, queue, segmentFiles, uploadedFiles, now, store, disk, runs>>

\* validateFFmpegBinary: fs.access succeeds
ValidateOk ==
  /\ pc = "validate"
  /\ log' = Append(log, LogEntry("access", FFMPEG_PATH, TRUE))
  /\ pc' = "encode"
  /\ UNCHANGED <<records, idx, processingResults, runVars, now, store, disk, runs>>

\* validateFFmpegBinary: fs.access fails
ValidateFail ==
  /\ pc = "validate"
  /\ log' = Append(log, LogEntry("access", FFMPEG_PATH, FALSE))
  /\ Throw("FFmpeg binary not found or not executable at " \o FFMPEG_PATH)
  /\ UNCHANGED <<records, idx, processingResults, s3Key, videoDir, videoName, tempInput,
                 tempOutput, tier, segments, queue, segmentFiles, uploadedFiles, now, store, disk, runs>>

(***************************************************************************)
(* convertMp4ToHls: the three encodes and the master playlist.             *)
(***************************************************************************)
\* The names ffmpeg writes for one tier
PlaylistName(name, quality) == name \o "_" \o quality \o ".m3u8"
SegmentName(name, quality, i) == name \o "_" \o quality \o "_" \o Pad3(i) \o ".ts"
\* Faulty variant of MasterName: the master playlist keeps the extension of the source
MasterName_KeepsSourceExtension(name) == name \o ".mp4"
MasterName(name) == name \o ".m3u8"

\* What a file written by the ffmpeg of the current run holds
FfmpegBody == "ffmpeg output of run " \o ToString(idx)

\* The segment files ffmpeg writes when it cuts n segments
SegmentsWritten(n, quality) ==
  {File(join(tempOutput, SegmentName(videoName, quality, i)), FfmpegBody) : i \in 0..(n - 1)}

\* The numbers of segments ffmpeg may cut for the next tier: every tier is cut
\* from the same input with the same -hls_time, so the first tier decides.
SegmentCounts == IF tier = 1 THEN 1..MaxSegs ELSE {segments}

\* generateQualityHLS: execSync returns, the tier's playlist and n segments exist
GenerateOk ==
  /\ pc = "encode"
  /\ \E n \in SegmentCounts :
       /\ disk' = WriteFiles(disk,
                    SegmentsWritten(n, qualities[tier]) \cup
                    {File(join(tempOutput, PlaylistName(videoName, qualities[tier])), FfmpegBody)})
       /\ segments' = n
  /\ log' = Append(log, LogEntry("ffmpeg", qualities[tier], TRUE))
  /\ tier' = tier + 1
  /\ pc' = IF tier = Len(qualities) THEN "master" ELSE "encode"
  /\ UNCHANGED <<records, idx, processingResults, s3Key, videoDir, videoName, tempInput,
                 tempOutput, queue, segmentFiles, uploadedFiles, error, now, store, runs>>

\* What execSync's error says: a non-zero exit, or the 10 minute timeout
ExecMessages == {"Command failed: " \o FFMPEG_PATH, "spawnSync /bin/sh ETIMEDOUT"}

\* Faulty variant of GenerateFail: the error of execSync is logged and swallowed, and
\* the run goes on with the next tier
GenerateFail_Swallowed ==
  /\ pc = "encode"
  /\ \E n \in 0..(MaxSegs - 1) : disk' = WriteFiles(disk, SegmentsWritten(n, qualities[tier]))
  /\ log' = Append(log, LogEntry("ffmpeg", qualities[tier], FALSE))
  /\ tier' = tier + 1
  /\ pc' = IF tier = Len(qualities) THEN "master" ELSE "encode"
  /\ UNCHANGED <<records, idx, processingResults, s3Key, videoDir, videoName, tempInput,
                 tempOutput, segments, queue, segmentFiles, uploadedFiles, error, now,
                 store, runs>>

\* Faulty variant of GenerateFail: the error of execSync is rethrown as it is,
\* without the name of the quality
GenerateFail_NoTierName ==
  /\ pc = "encode"
  /\ \E n \in 0..(MaxSegs - 1) : disk' = WriteFiles(disk, SegmentsWritten(n, qualities[tier]))
  /\ \E message \in ExecMessages : Throw(message)
  /\ log' = Append(log, LogEntry("ffmpeg", qualities[tier], FALSE))
  /\ UNCHANGED <<records, idx, processingResults, s3Key, videoDir, videoName, tempInput,
                 tempOutput, tier, segments, queue, segmentFiles, uploadedFiles, now, store, runs>>

\* generateQualityHLS: execSync throws; ffmpeg may have written some of the
\* segments before it stopped
GenerateFail ==
  /\ pc = "encode"
  /\ \E n \in 0..(MaxSegs - 1) : disk' = WriteFiles(disk, SegmentsWritten(n, qualities[tier]))
  /\ \E message \in ExecMessages :
       Throw("FFmpeg processing failed for " \o qualities[tier] \o ": " \o message)
  /\ log' = Append(log, LogEntry("ffmpeg", qualities[tier], FALSE))
  /\ UNCHANGED <<records, idx, processingResults, s3Key, videoDir, videoName, tempInput,
                 tempOutput, tier, segments, queue, segmentFiles, uploadedFiles, now, store, runs>>

\* Faulty variant of masterPlaylistContent: the 720p entry comes before the 480p entry
masterPlaylistContent_TiersSwapped(name) ==
  "#EXTM3U\n#EXT-X-VERSION:3\n\n"
  \o "#EXT-X-STREAM-INF:BANDWIDTH=2628000,RESOLUTION=1280x720,CODECS=\"avc1.42e01e,mp4a.40.2\"\n"
  \o name \o "_720p.m3u8\n\n"
  \o "#EXT-X-STREAM-INF:BANDWIDTH=1128000,RESOLUTION=854x480,CODECS=\"avc1.42e01e,mp4a.40.2\"\n"
  \o name \o "_480p.m3u8\n\n"
  \o "#EXT-X-STREAM-INF:BANDWIDTH=5192000,RESOLUTION=1920x1080,CODECS=\"avc1.42e01f,mp4a.40.2\"\n"
  \o name \o "_1080p.m3u8\n"

\* Faulty variant of masterPlaylistContent: the playlist carries the time of the run
masterPlaylistContent_Timestamped(name) ==
  "#EXTM3U\n#EXT-X-VERSION:3\n# created " \o ToString(now) \o "\n\n"
  \o "#EXT-X-STREAM-INF:BANDWIDTH=1128000,RESOLUTION=854x480,CODECS=\"avc1.42e01e,mp4a.40.2\"\n"
  \o name \o "_480p.m3u8\n\n"
  \o "#EXT-X-STREAM-INF:BANDWIDTH=2628000,RESOLUTION=1280x720,CODECS=\"avc1.42e01e,mp4a.40.2\"\n"
  \o name \o "_720p.m3u8\n\n"
  \o "#EXT-X-STREAM-INF:BANDWIDTH=5192000,RESOLUTION=1920x1080,CODECS=\"avc1.42e01f,mp4a.40.2\"\n"
  \o name \o "_1080p.m3u8\n"

\* Faulty variant of masterPlaylistContent: the bandwidths leave out the audio
masterPlaylistContent_VideoBitrateOnly(name) ==
  "#EXTM3U\n#EXT-X-VERSION:3\n\n"
  \o "#EXT-X-STREAM-INF:BANDWIDTH=1000000,RESOLUTION=854x480,CODECS=\"avc1.42e01e,mp4a.40.2\"\n"
  \o name \o "_480p.m3u8\n\n"
  \o "#EXT-X-STREAM-INF:BANDWIDTH=2500000,RESOLUTION=1280x720,CODECS=\"avc1.42e01e,mp4a.40.2\"\n"
  \o name \o "_720p.m3u8\n\n"
  \o "#EXT-X-STREAM-INF:BANDWIDTH=5000000,RESOLUTION=1920x1080,CODECS=\"avc1.42e01f,mp4a.40.2\"\n"
  \o name \o "_1080p.m3u8\n"

\* The body createMasterPlaylist writes
masterPlaylistContent(name) ==
  "#EXTM3U\n#EXT-X-VERSION:3\n\n"
  \o "#EXT-X-STREAM-INF:BANDWIDTH=1128000,RESOLUTION=854x480,CODECS=\"avc1.42e01e,mp4a.40.2\"\n"
  \o name \o "_480p.m3u8\n\n"
  \o "#EXT-X-STREAM-INF:BANDWIDTH=2628000,RESOLUTION=1280x720,CODECS=\"avc1.42e01e,mp4a.40.2\"\n"
  \o name \o "_720p.m3u8\n\n"
  \o "#EXT-X-STREAM-INF:BANDWIDTH=5192000,RESOLUTION=1920x1080,CODECS=\"avc1.42e01f,mp4a.40.2\"\n"
  \o name \o "_1080p.m3u8\n"

\* One pending uploadFile call
Upload(localPath, key, contentType, cacheControl) ==
  [localPath |-> localPath, key |-> key, contentType |-> contentType,
   cacheControl |-> cacheControl]

\* Faulty variant of ManifestUploads: the master playlist is uploaded after the
\* playlists of the qualities
ManifestUploads_MasterLast ==
  [q \in 1..Len(qualities) |->
     Upload(join(tempOutput, PlaylistName(videoName, qualities[q])),
            videoDir \o "/" \o PlaylistName(videoName, qualities[q]),
            "application/vnd.apple.mpegurl", "no-cache")]
  \o <<Upload(join(tempOutput, MasterName(videoName)),
              videoDir \o "/" \o MasterName(videoName),
              "application/vnd.apple.mpegurl", "no-cache")>>

\* uploadHlsFiles: the master playlist, then the playlist of every quality
ManifestUploads ==
  <<Upload(join(tempOutput, MasterName(videoName)),
           videoDir \o "/" \o MasterName(videoName),
           "application/vnd.apple.mpegurl", "no-cache")>>
  \o [q \in 1..Len(qualities) |->
        Upload(join(tempOutput, PlaylistName(videoName, qualities[q])),
               videoDir \o "/" \o PlaylistName(videoName, qualities[q]),
               "application/vnd.apple.mpegurl", "no-cache")]

\* createMasterPlaylist: fs.writeFile succeeds; uploadHlsFiles starts
CreateMasterOk ==
  /\ pc = "master"
  /\ disk' = WriteFiles(disk, {File(join(tempOutput, MasterName(videoName)),
                                    masterPlaylistContent(videoName))})
  /\ log' = Append(log, LogEntry("writeFile", join(tempOutput, MasterName(videoName)), TRUE))
  /\ queue' = ManifestUploads
  /\ uploadedFiles' = <<>>
  /\ pc' = "manifests"
  /\ UNCHANGED <<records, idx, processingResults, s3Key, videoDir, videoName, tempInput,
                 tempOutput, tier, segments, segmentFiles, error, now, store, runs>>

\* createMasterPlaylist: fs.writeFile fails
CreateMasterFail ==
  /\ pc = "master"
  /\ log' = Append(log, LogEntry("writeFile", join(tempOutput, MasterName(videoName)), FALSE))
  /\ Throw("ENOSPC: no space left on device, write")
  /\ UNCHANGED <<records, idx, processingResults, s3Key, videoDir, videoName, tempInput,
                 tempOutput, tier, segments, queue, segmentFiles, uploadedFiles, now, store, disk, runs>>

(***************************************************************************)
(* uploadHlsFiles.                                                         *)
(***************************************************************************)
\* The local file uploadFile reads, as a set: empty when the path is missing
LocalFile(path) == {f \in disk : f.path = path}

\* uploadFile succeeds: fs.readFile, PutObject, uploadedFiles.push
UploadFileOk(u) ==
  /\ LocalFile(u.localPath) # {}
  /\ \E f \in LocalFile(u.localPath) :
       store' = PutObject(store, Object(u.key, u.contentType, u.cacheControl, f.body))
  /\ uploadedFiles' = Append(uploadedFiles, u.key)
  /\ log' = Append(log, LogEntry("PutObject", u.key, TRUE))

\* uploadFile throws: fs.readFile fails on a missing file, or PutObject fails
UploadFileFail(u) ==
  /\ log' = Append(log, IF LocalFile(u.localPath) = {}
                          THEN LogEntry("readFile", u.localPath, FALSE)
                          ELSE LogEntry("PutObject", u.key, FALSE))
  /\ Throw(IF LocalFile(u.localPath) = {} THEN "ENOENT: no such file or directory, open"
           ELSE "Access Denied")
  /\ UNCHANGED <<store, uploadedFiles>>

\* The master playlist or a quality playlist is uploaded
UploadManifestOk ==
  /\ pc = "manifests"
  /\ UploadFileOk(Head(queue))
  /\ queue' = Tail(queue)
  /\ pc' = IF Tail(queue) = <<>> THEN "readdir" ELSE "manifests"
  /\ UNCHANGED <<records, idx, processingResults, s3Key, videoDir, videoName, tempInput,
                 tempOutput, tier, segments, segmentFiles, error, now, disk, runs>>

UploadManifestFail ==
  /\ pc = "manifests"
  /\ UploadFileFail(Head(queue))
  /\ UNCHANGED <<records, idx, processingResults, s3Key, videoDir, videoName, tempInput,
                 tempOutput, tier, segments, queue, segmentFiles, now, disk, runs>>

\* Faulty variant of SegmentUpload: segments are pushed with the metadata of playlists
SegmentUpload_AsPlaylist(name) ==
  Upload(join(tempOutput, name), videoDir \o "/" \o name,
         "application/vnd.apple.mpegurl", "no-cache")

\* The upload of the segment file of the given name
SegmentUpload(name) ==
  Upload(join(tempOutput, name), videoDir \o "/" \o name, "video/mp2t", "max-age=31536000")

\* fs.readdir(tempOutput) and the filter on ".ts"
ListSegments ==
  /\ pc = "readdir"
  /\ segmentFiles' = {name \in readdir(disk, tempOutput) : endsWith(name, ".ts")}
  /\ log' = Append(log, LogEntry("readdir", tempOutput, TRUE))
  /\ pc' = IF segmentFiles' = {} THEN "cleanup" ELSE "segments"
  /\ UNCHANGED <<records, idx, processingResults, s3Key, videoDir, videoName, tempInput,
                 tempOutput, tier, segments, queue, uploadedFiles, error, now, store, disk, runs>>

\* The segment the for-of loop takes next: fs.readdir's order is unspecified;
\* the model takes the files in creation order (tier, then index).
NextSegment ==
  CHOOSE name \in segmentFiles :
    \E q \in 1..Len(qualities), i \in 0..(MaxSegs - 1) :
      /\ name = SegmentName(videoName, qualities[q], i)
      /\ \A r \in 1..Len(qualities), j \in 0..(MaxSegs - 1) :
           SegmentName(videoName, qualities[r], j) \in segmentFiles
             => (r > q \/ (r = q /\ j >= i))

\* A segment is uploaded
UploadSegmentOk ==
  /\ pc = "segments"
  /\ UploadFileOk(SegmentUpload(NextSegment))
  /\ segmentFiles' = segmentFiles \ {NextSegment}
  /\ pc' = IF segmentFiles' = {} THEN "cleanup" ELSE "segments"
  /\ UNCHANGED <<records, idx, processingResults, s3Key, videoDir, videoName, tempInput,
                 tempOutput, tier, segments, queue, error, now, disk, runs>>

\* Faulty variant of UploadSegmentFail: the failed upload is logged and the loop goes on
\* with the next segment
UploadSegmentFail_Continues ==
  /\ pc = "segments"
  /\ log' = Append(log, LogEntry("PutObject", SegmentUpload(NextSegment).key, FALSE))
  /\ segmentFiles' = segmentFiles \ {NextSegment}
  /\ pc' = IF segmentFiles' = {} THEN "cleanup" ELSE "segments"
  /\ UNCHANGED <<records, idx, processingResults, s3Key, videoDir, videoName, tempInput,
                 tempOutput, tier, segments, queue, uploadedFiles, error, now, store,
                 disk, runs>>

UploadSegmentFail ==
  /\ pc = "segments"
  /\ UploadFileFail(SegmentUpload(NextSegment))
  /\ UNCHANGED <<records, idx, processingResults, s3Key, videoDir, videoName, tempInput,
                 tempOutput, tier, segments, queue, segmentFiles, now, disk, runs>>

(***************************************************************************)
(* cleanupFiles and the two ways out of convertMp4ToHls.                   *)
(***************************************************************************)
\* cleanupFiles: unlink and rm each succeed or fail; a failure is swallowed
cleanupFiles(unlinkOk, rmOk) ==
  /\ disk' = LET afterUnlink == IF unlinkOk THEN unlink(disk, tempInput) ELSE disk
             IN  IF rmOk THEN rm(afterUnlink, tempOutput) ELSE afterUnlink
  /\ log' = Append(log, LogEntry("cleanupFiles", tempOutput, unlinkOk /\ rmOk))

\* Faulty variant of CleanupAfterUpload: a failed deletion is thrown instead of
\* being swallowed, so the run ends in the catch block
CleanupAfterUpload_FailureThrows ==
  /\ pc = "cleanup"
  /\ \E unlinkOk \in BOOLEAN, rmOk \in BOOLEAN :
       /\ cleanupFiles(unlinkOk, rmOk)
       /\ IF unlinkOk /\ rmOk
            THEN pc' = "return" /\ UNCHANGED error
            ELSE pc' = "throw" /\ error' = "EBUSY: resource busy or locked, rm"
  /\ UNCHANGED <<records, idx, processingResults, s3Key, videoDir, videoName, tempInput,
                 tempOutput, tier, segments, queue, segmentFiles, uploadedFiles, now, store, runs>>

\* await cleanupFiles(...) after the uploads; the result is then built
CleanupAfterUpload ==
  /\ pc = "cleanup"
  /\ \E unlinkOk \in BOOLEAN, rmOk \in BOOLEAN : cleanupFiles(unlinkOk, rmOk)
  /\ pc' = "return"
  /\ UNCHANGED <<records, idx, processingResults, runVars, now, store, runs>>

\* Faulty variant of CleanupOnError: the catch block rethrows without cleaning up
CleanupOnError_NoCleanup ==
  /\ pc = "catch"
  /\ pc' = "throw"
  /\ UNCHANGED <<records, idx, processingResults, runVars, now, store, disk, log, runs>>

\* catch (error) { await cleanupFiles(...); throw error; }
CleanupOnError ==
  /\ pc = "catch"
  /\ \E unlinkOk \in BOOLEAN, rmOk \in BOOLEAN : cleanupFiles(unlinkOk, rmOk)
  /\ pc' = "throw"
  /\ UNCHANGED <<records, idx, processingResults, runVars, now, store, runs>>

\* Faulty variant of SuccessResult: the master playlist key is listed last
SuccessResult_MasterLast ==
  [inputKey |-> s3Key,
   outputFiles |-> Tail(uploadedFiles) \o <<Head(uploadedFiles)>>,
   masterPlaylistUrl |-> "https://" \o sourceBucket \o ".s3." \o AWS_REGION
                         \o ".amazonaws.com/" \o videoDir \o "/" \o videoName \o ".m3u8",
   videoName |-> videoName,
   outputDirectory |-> videoDir,
   error |-> NoError,
   success |-> TRUE]

\* The result convertMp4ToHls returns
SuccessResult ==
  [inputKey |-> s3Key,
   outputFiles |-> uploadedFiles,
   masterPlaylistUrl |-> "https://" \o sourceBucket \o ".s3." \o AWS_REGION
                         \o ".amazonaws.com/" \o videoDir \o "/" \o videoName \o ".m3u8",
   videoName |-> videoName,
   outputDirectory |-> videoDir,
   error |-> NoError,
   success |-> TRUE]

\* Faulty variant of FailureResult: the failure result reports the keys the run had
\* uploaded before it failed
FailureResult_KeepsUploaded ==
  [inputKey |-> sourceKey(idx).value,
   outputFiles |-> uploadedFiles,
   masterPlaylistUrl |-> "",
   videoName |-> basename(sourceKey(idx).value, ".mp4"),
   outputDirectory |-> "",
   error |-> error,
   success |-> FALSE]

\* The result the handler builds in its catch block
FailureResult ==
  [inputKey |-> sourceKey(idx).value,
   outputFiles |-> <<>>,
   masterPlaylistUrl |-> "",
   videoName |-> basename(sourceKey(idx).value, ".mp4"),
   outputDirectory |-> "",
   error |-> error,
   success |-> FALSE]

\* Faulty variant of PushResult: the result is put at the front of the list
PushResult_Unshift ==
  /\ pc = "return"
  /\ processingResults' = <<SuccessResult>> \o processingResults
  /\ idx' = idx + 1
  /\ pc' = "loop"
  /\ UNCHANGED <<records, runVars, now, store, disk, log, runs>>

\* handler: convertMp4ToHls returned; processingResults.push(result)
PushResult ==
  /\ pc = "return"
  /\ processingResults' = Append(processingResults, SuccessResult)
  /\ idx' = idx + 1
  /\ pc' = "loop"
  /\ UNCHANGED <<records, runVars, now, store, disk, log, runs>>

\* handler: catch (error) { processingResults.push({... success: false}) }
CatchError ==
  /\ pc = "throw"
  /\ processingResults' = Append(processingResults, FailureResult)
  /\ idx' = idx + 1
  /\ pc' = "loop"
  /\ UNCHANGED <<records, runVars, now, store, disk, log, runs>>

\* handler: the loop is over; return { results: processingResults }
Return ==
  /\ pc = "loop"
  /\ idx > Len(records)
  /\ pc' = "returned"
  /\ UNCHANGED <<records, idx, processingResults, runVars, now, store, disk, log, runs>>

Next ==
  \/ DecodeThrows
  \/ SkipNotMp4
  \/ SkipProcessedOutput
  \/ StartConvert
  \/ DownloadOk
  \/ DownloadFail
  \/ MkdirOk
  \/ MkdirFail
  \/ ValidateOk
  \/ ValidateFail
  \/ GenerateOk
  \/ GenerateFail
  \/ CreateMasterOk
  \/ CreateMasterFail
  \/ UploadManifestOk
  \/ UploadManifestFail
  \/ ListSegments
  \/ UploadSegmentOk
  \/ UploadSegmentFail
  \/ CleanupAfterUpload
  \/ CleanupOnError
  \/ PushResult
  \/ CatchError
  \/ Return

Spec == Init /\ [][Next]_vars

(***************************************************************************)
(* The naming of segment files on its own: ffmpeg expands the pattern of   *)
(* -hls_segment_filename for a base name, a quality and a segment index.   *)
(***************************************************************************)
\* Base names, with and without underscores and digits
BaseNames == {"v", "v_1", "7", "x_y_2", "a_480p", "v_480p_000"}

\* A base name, a quality and an index (held in segments) are given
SegmentNameInit ==
  /\ videoName \in BaseNames
  /\ tier \in DOMAIN qualities
  /\ segments \in 0..MaxIndex
  /\ segmentFiles = {}
  /\ pc = "name"
  /\ records = <<>>
  /\ idx = 1
  /\ processingResults = <<>>
  /\ s3Key = ""
  /\ videoDir = ""
  /\ tempInput = ""
  /\ tempOutput = ""
  /\ queue = <<>>
  /\ uploadedFiles = <<>>
  /\ error = NoError
  /\ now = 0
  /\ store = {}
  /\ disk = {}
  /\ log = <<>>
  /\ runs = <<>>

\* The segment file name is formed
ApplySegmentName ==
  /\ pc = "name"
  /\ segmentFiles' = {SegmentName(videoName, qualities[tier], segments)}
  /\ pc' = "named"
  /\ UNCHANGED <<records, idx, processingResults, s3Key, videoDir, videoName, tempInput,
                 tempOutput, tier, segments, queue, uploadedFiles, error, now, store, disk,
                 log, runs>>

SegmentNameNext == ApplySegmentName

SegmentNameSpec == SegmentNameInit /\ [][SegmentNameNext]_vars

(***************************************************************************)
(* The reference batch script: convert_mp4_to_hls, as the sequence of      *)
(* operations it performs for given outcomes of its steps.                 *)
(***************************************************************************)
\* One operation of the script: an aws s3 cp, or an ffmpeg invocation
ScriptOp(op, arg, ok, contentType, cacheControl) ==
  [op |-> op, arg |-> arg, ok |-> ok,
   contentType |-> IF ok THEN contentType ELSE "",
   cacheControl |-> IF ok THEN cacheControl ELSE ""]

\* The steps up to and including the first one that fails: a failing step
\* ends the function ("return 1", "|| return 1", or set -e in the subshell)
TakeUntilFailure(steps) ==
  LET failures == {i \in DOMAIN steps : ~steps[i].ok}
  IN  IF failures = {} THEN steps
      ELSE SubSeq(steps, 1, CHOOSE i \in failures : \A j \in failures : i <= j)

\* convert_mp4_to_hls for the key s3_key, when ffmpeg cuts n segments per
\* quality and the steps have the given outcomes: the operations performed,
\* and whether the final rm -rf of the temporary files is reached
convert_mp4_to_hls(s3_key, outcomes, n) ==
  LET video_dir == dirname(s3_key)
      video_name == basename(s3_key, ".mp4")
      pushOk(key) == key \notin outcomes.pushFailed
      download == <<ScriptOp("GetObject", s3_key, outcomes.download, "", "")>>
      encodes == [q \in DOMAIN qualities |->
                    ScriptOp("ffmpeg", qualities[q], outcomes.encode[q], "", "")]
      write == <<ScriptOp("writeFile", video_name \o ".m3u8", outcomes.write, "", "")>>
      master == <<ScriptOp("PutObject", video_dir \o "/" \o video_name \o ".m3u8",
                           pushOk(video_dir \o "/" \o video_name \o ".m3u8"),
                           "application/vnd.apple.mpegurl", "no-cache")>>
      playlists == [q \in DOMAIN qualities |->
                      ScriptOp("PutObject",
                               video_dir \o "/" \o video_name \o "_" \o qualities[q] \o ".m3u8",
                               pushOk(video_dir \o "/" \o video_name \o "_" \o qualities[q] \o ".m3u8"),
                               "application/vnd.apple.mpegurl", "no-cache")]
      segmentsOf(q) == [i \in 1..n |->
                          ScriptOp("PutObject",
                                   video_dir \o "/" \o SegmentName(video_name, qualities[q], i - 1),
                                   pushOk(video_dir \o "/" \o SegmentName(video_name, qualities[q], i - 1)),
                                   "video/mp2t", "max-age=31536000")]
      steps == download \o encodes \o write \o master \o playlists
               \o segmentsOf(1) \o segmentsOf(2) \o segmentsOf(3)
  IN  [ops |-> TakeUntilFailure(steps),
       cleaned |-> \A i \in DOMAIN steps : steps[i].ok]

(***************************************************************************)
(* Vocabulary of the properties.                                           *)
(***************************************************************************)
\* Positions of the history entries of operation op made for record r
LogOf(r, op) == {p \in DOMAIN log : log[p].rec = r /\ log[p].op = op}

\* convertMp4ToHls has been left (returned or thrown) for record r
Exited(r) == r < idx \/ (r = idx /\ pc \in {"return", "throw"})

\* The handler has pushed the result of the run for record r
Collected(r) == r < idx

\* The records for which convertMp4ToHls was called
RunRecords == {runs[k].rec : k \in DOMAIN runs}

\* The result of the k-th run: the handler pushes one result per run, in order
ResultOfRun(k) == processingResults[k]

\* The input keys of the results, in order
ResultKeys == [k \in DOMAIN processingResults |-> processingResults[k].inputKey]

\* The suffix test, written out
EndsInMp4(key) ==
  /\ Len(key) >= 4
  /\ toLowerCase(SubSeq(key, Len(key) - 3, Len(key))) = ".mp4"

\* The key names one of the tiers' outputs
NamesATier(key) ==
  \E q \in DOMAIN qualities : includes(key, "_" \o qualities[q])

\* The decoded keys of the first n records that end in ".mp4", in record order
RECURSIVE Mp4Keys(_)
Mp4Keys(n) ==
  IF n = 0 THEN <<>>
  ELSE IF sourceKey(n).ok /\ EndsInMp4(sourceKey(n).value)
    THEN Append(Mp4Keys(n - 1), sourceKey(n).value)
  ELSE Mp4Keys(n - 1)

\* Of those, the keys that name no tier
RECURSIVE EligibleKeys(_)
EligibleKeys(n) ==
  IF n = 0 THEN <<>>
  ELSE IF sourceKey(n).ok /\ EndsInMp4(sourceKey(n).value) /\ ~NamesATier(sourceKey(n).value)
    THEN Append(EligibleKeys(n - 1), sourceKey(n).value)
  ELSE EligibleKeys(n - 1)

C2_CleanupExactlyOnce ==
  \A r \in RunRecords :
    /\ Cardinality(LogOf(r, "cleanupFiles")) <= 1
    /\ Exited(r) => Cardinality(LogOf(r, "cleanupFiles")) = 1

\* C2 witness: a run that failed at a push has been left, after uploading
\* something, with its one cleanup.
C2_Witness ==
  \E r \in RunRecords :
    /\ Exited(r)
    /\ \E p \in LogOf(r, "PutObject") : ~log[p].ok
    /\ \E p \in LogOf(r, "PutObject") : log[p].ok
    /\ Cardinality(LogOf(r, "cleanupFiles")) = 1

(***************************************************************************)
(* C3. A run in which the ffmpeg invocation of any tier failed makes no    *)
(* PutObject call at all.                                                  *)
(***************************************************************************)
C3_NoPushAfterCodecFailure ==
  \A p \in DOMAIN log :
    (log[p].op = "ffmpeg" /\ ~log[p].ok) => LogOf(log[p].rec, "PutObject") = {}

\* C3 witness: the handler returned after a run whose 720p encode failed.
C3_Witness ==
  /\ pc = "returned"
  /\ \E p \in DOMAIN log : log[p].op = "ffmpeg" /\ ~log[p].ok /\ log[p].arg = "720p"

\* The keys of the objects in the bucket
StoreKeys == {o.key : o \in store}

\* The key of the master manifest of a run, and of its sub-manifest of a tier
MasterKeyOf(run) ==
  dirname(run.key) \o "/" \o basename(run.key, ".mp4") \o ".m3u8"
SubManifestKeyOf(run, quality) ==
  dirname(run.key) \o "/" \o basename(run.key, ".mp4") \o "_" \o quality \o ".m3u8"

(***************************************************************************)
(* C4. The claim: in every state of the bucket, the master manifest a run  *)
(* wrote is present only if every sub-manifest it references is present.   *)
(***************************************************************************)
C4_MasterOnlyWithSubManifests ==
  \A k \in DOMAIN runs :
    (\E o \in store : /\ o.key = MasterKeyOf(runs[k])
                      /\ o.body = masterPlaylistContent(basename(runs[k].key, ".mp4")))
      => \A q \in DOMAIN qualities : SubManifestKeyOf(runs[k], qualities[q]) \in StoreKeys

(***************************************************************************)
(* C5. The orchestrator only adds objects: every source object is in the   *)
(* bucket as the notification announced it (never deleted, never           *)
(* overwritten), every key pushed is still there (nothing is deleted), and *)
(* no PutObject is made on a key that passes the ".mp4" filter.            *)
(***************************************************************************)
C5_OnlyAddsObjects ==
  LET sources == SourceObjects(records)
      puts == {log[p].arg : p \in {q \in DOMAIN log : log[q].op = "PutObject"}}
      pushed == {log[p].arg : p \in {q \in DOMAIN log : log[q].op = "PutObject" /\ log[q].ok}}
  IN  /\ sources \subseteq store
      /\ \A o \in store : EndsInMp4(o.key) => o \in sources
      /\ \A key \in puts : ~EndsInMp4(key) /\ key \notin {o.key : o \in sources}
      /\ pushed \subseteq StoreKeys

\* C5 witness: a run has uploaded its whole ladder next to its source object,
\* which is still there as it was.
C5_Witness ==
  /\ pc = "return"
  /\ Len(uploadedFiles) > Len(qualities) + 1
  /\ Object(s3Key, "video/mp4", "", "mp4") \in store

(***************************************************************************)
(* C6. The claim: the handler never throws past its own boundary,          *)
(* whatever the outcome of key decoding and of every stage of a run.       *)
(***************************************************************************)
C6_HandlerNeverThrows == pc # "thrown"

(***************************************************************************)
(* C7. The claim: failures are per-source. Once the run for a record has   *)
(* failed, the handler still goes through every later record and returns   *)
(* the result list, in which the earlier results and the failure stand.    *)
(***************************************************************************)
\* Some run has failed and the handler has pushed its failure result
SomeRunFailed == \E k \in DOMAIN processingResults : ~processingResults[k].success

C7_FailuresArePerSource ==
  SomeRunFailed =>
    /\ pc # "thrown"
    /\ pc = "returned" => ResultKeys = EligibleKeys(Len(records))

(***************************************************************************)
(* C8. For a record whose decoded key does not end in ".mp4" (any case)    *)
(* convertMp4ToHls is never called, no external operation is made, and no  *)
(* result is emitted: every result and every run is for an ".mp4" key and  *)
(* there are no more results than runs.                                    *)
(***************************************************************************)
C8_NonMp4NeverProcessed ==
  /\ \A i \in DOMAIN records :
       (sourceKey(i).ok /\ ~EndsInMp4(sourceKey(i).value)) =>
         /\ i \notin RunRecords
         /\ \A p \in DOMAIN log : log[p].rec # i
  /\ \A k \in DOMAIN processingResults : EndsInMp4(processingResults[k].inputKey)
  /\ Len(processingResults) <= Len(runs)

\* C8 witness: the handler returned a batch that held a record that is not an
\* .mp4 and a record that was converted.
C8_Witness ==
  /\ pc = "returned"
  /\ \E i \in DOMAIN records : sourceKey(i).ok /\ ~EndsInMp4(sourceKey(i).value)
  /\ Len(processingResults) = 1

(***************************************************************************)
(* C9. The claim: any two distinct runs use distinct local input file      *)
(* paths and distinct local output directory paths.                        *)
(***************************************************************************)
C9_DistinctScratchNames ==
  \A j, k \in DOMAIN runs :
    j # k => /\ runs[j].tempInput # runs[k].tempInput
             /\ runs[j].tempOutput # runs[k].tempOutput

FailedOps(r) ==
  {p \in DOMAIN log : log[p].rec = r /\ log[p].op # "cleanupFiles" /\ ~log[p].ok}

\* The error messages the failure of a logged operation raises
ErrorsOf(entry) ==
  CASE entry.op = "GetObject" -> {"read ECONNRESET", "Access Denied"}
    [] entry.op = "mkdir" -> {"ENOSPC: no space left on device, mkdir"}
    [] entry.op = "access" -> {"FFmpeg binary not found or not executable at " \o FFMPEG_PATH}
    [] entry.op = "ffmpeg" ->
         {"FFmpeg processing failed for " \o entry.arg \o ": " \o m : m \in ExecMessages}
    [] entry.op = "writeFile" -> {"ENOSPC: no space left on device, write"}
    [] entry.op = "readFile" -> {"ENOENT: no such file or directory, open"}
    [] entry.op = "PutObject" -> {"Access Denied"}
    [] OTHER -> {}

\* The deletion of the run for record r failed
CleanupFailed(r) == \E p \in LogOf(r, "cleanupFiles") : ~log[p].ok

C11_CleanupFailureKeepsOutcome ==
  \A k \in DOMAIN runs :
    Collected(runs[k].rec) =>
      /\ ResultOfRun(k).success <=> FailedOps(runs[k].rec) = {}
      /\ \A p \in FailedOps(runs[k].rec) : ResultOfRun(k).error \in ErrorsOf(log[p])
      /\ ResultOfRun(k).success => ResultOfRun(k).error = NoError

\* C11 witness: the handler has collected a run that succeeded and a run that
\* failed, and the deletion failed in both.
C11_Witness ==
  \E j, k \in DOMAIN runs :
    /\ Collected(runs[j].rec) /\ Collected(runs[k].rec)
    /\ CleanupFailed(runs[j].rec) /\ CleanupFailed(runs[k].rec)
    /\ ResultOfRun(j).success
    /\ ~ResultOfRun(k).success

(***************************************************************************)
(* C12. The claim: every key a run pushes has exactly the directory prefix *)
(* of the source key of the run (the part of the key up to and including   *)
(* its last "/", empty for an object at the bucket root), so the outputs   *)
(* are siblings of the source object.                                      *)
(***************************************************************************)
\* The directory prefix of an object key
DirPrefix(key) == SubSeq(key, 1, LastSlash(key))

\* The source key of the run for record r
KeyOfRecord(r) == sourceKey(r).value

C12_OutputsAreSiblingsOfSource ==
  \A p \in DOMAIN log :
    log[p].op = "PutObject" => DirPrefix(log[p].arg) = DirPrefix(KeyOfRecord(log[p].rec))

(***************************************************************************)
(* C13. The claim: when a run has succeeded for the source                 *)
(* {dir}/{baseName}.mp4, the keys it pushed are exactly {dir}/{baseName}   *)
(* .m3u8, {dir}/{baseName}_{tier}.m3u8 for each tier, and one key for each *)
(* segment file the ffmpeg invocations of this run produced, each pushed   *)
(* once and nothing else, whatever the runs before it did.                 *)
(***************************************************************************)
\* The keys a successful run for the source key is to push when its ffmpeg
\* invocations cut n segments per tier
ExpectedKeys(key, n) ==
  LET dir == dirname(key)
      baseName == basename(key, ".mp4")
  IN  {dir \o "/" \o baseName \o ".m3u8"}
      \cup {dir \o "/" \o baseName \o "_" \o qualities[q] \o ".m3u8" : q \in DOMAIN qualities}
      \cup {dir \o "/" \o baseName \o "_" \o qualities[q] \o "_" \o Pad3(i) \o ".ts" :
              q \in DOMAIN qualities, i \in 0..(n - 1)}

C13_PushedKeysAreThisRunsOutputs ==
  pc = "return" =>
    /\ {uploadedFiles[i] : i \in DOMAIN uploadedFiles} = ExpectedKeys(s3Key, segments)
    /\ Len(uploadedFiles) = Cardinality(ExpectedKeys(s3Key, segments))

(***************************************************************************)
(* C14. The claim: for every accepted source key, whatever the letter case *)
(* of its ".mp4" suffix, the base name in the local and remote output      *)
(* names is the last path component of the key without its suffix, so the  *)
(* master manifest is written locally as {baseName}.m3u8 and pushed as     *)
(* {dir}/{baseName}.m3u8.                                                  *)
(***************************************************************************)
\* The last path component of an accepted key without its four-character suffix
Stem(key) ==
  LET component == SubSeq(key, LastSlash(key) + 1, Len(key))
  IN  SubSeq(component, 1, Len(component) - 4)

C14_BaseNameDropsSuffixInAnyCase ==
  \A p \in DOMAIN log :
    LET key == KeyOfRecord(log[p].rec)
    IN  /\ log[p].op = "writeFile" =>
             endsWith(log[p].arg, "/" \o Stem(key) \o ".m3u8")
        /\ (log[p].op = "PutObject" /\ endsWith(log[p].arg, ".m3u8")) =>
             log[p].arg \in {dirname(key) \o "/" \o Stem(key) \o ".m3u8"}
                            \cup {dirname(key) \o "/" \o Stem(key) \o "_" \o qualities[q] \o ".m3u8" :
                                    q \in DOMAIN qualities}

(***************************************************************************)
(* C15. Whenever createMasterPlaylist has written the master manifest, the *)
(* manifest lists exactly the tiers 480p, 720p, 1080p in that order, one   *)
(* stream-info line followed by one URI line per tier, the URI being the   *)
(* file name of the sub-manifest of the tier, and the ffmpeg invocation of *)
(* every tier has succeeded earlier in the same run.                       *)
(***************************************************************************)
\* The lines of a text: the pieces between its line feeds
SplitLines(text) ==
  LET feeds == Positions(text, "\n")
      feed(k) == IF k = 0 THEN 0
                 ELSE IF k > Cardinality(feeds) THEN Len(text) + 1
                 ELSE CHOOSE p \in feeds : Cardinality({q \in feeds : q < p}) = k - 1
  IN  [k \in 1..(Cardinality(feeds) + 1) |-> SubSeq(text, feed(k - 1) + 1, feed(k) - 1)]

IsUriLine(line) == line # "" /\ ~startsWith(line, "#")
IsStreamInfLine(line) == startsWith(line, "#EXT-X-STREAM-INF:")

\* The playlist text lists the tiers, in order, for the base name
ListsTheTiersInOrder(text, baseName) ==
  LET lines == SplitLines(text)
  IN  /\ SelectSeq(lines, IsUriLine)
           = [q \in DOMAIN qualities |-> baseName \o "_" \o qualities[q] \o ".m3u8"]
      /\ Len(SelectSeq(lines, IsStreamInfLine)) = Len(qualities)
      /\ \A i \in DOMAIN lines :
           IsUriLine(lines[i]) => i > 1 /\ IsStreamInfLine(lines[i - 1])

\* The master manifest has just been written: the last operation is its writeFile
MasterJustWritten ==
  /\ log # <<>>
  /\ log[Len(log)].op = "writeFile"
  /\ log[Len(log)].ok

C15_MasterListsTheEncodedTiers ==
  MasterJustWritten =>
    LET written == log[Len(log)]
        path == written.arg
        baseName == SubSeq(path, LastSlash(path) + 1, Len(path) - Len(".m3u8"))
    IN  /\ \E f \in disk : f.path = path
        /\ \A f \in disk : f.path = path => ListsTheTiersInOrder(f.body, baseName)
        /\ \A q \in DOMAIN qualities :
             \E p \in LogOf(written.rec, "ffmpeg") : log[p].arg = qualities[q] /\ log[p].ok
        /\ \A p \in LogOf(written.rec, "ffmpeg") : log[p].ok

\* C15 witness: the master manifest of a run has just been written after the
\* three encodes of the run.
C15_Witness ==
  /\ MasterJustWritten
  /\ Cardinality(LogOf(log[Len(log)].rec, "ffmpeg")) = Len(qualities)
  /\ \E f \in disk : f.path = log[Len(log)].arg /\ f.body = masterPlaylistContent(videoName)

(***************************************************************************)
(* C16. Every result the handler has pushed is well-formed: a success      *)
(* result has a non-empty list of uploaded keys, a non-empty master        *)
(* manifest URL and no error; a failure result has an empty list, an empty *)
(* URL and a non-empty error text.                                         *)
(***************************************************************************)
C16_ResultsAreWellFormed ==
  \A k \in DOMAIN processingResults :
    LET result == processingResults[k]
    IN  /\ result.success =>
             /\ result.outputFiles # <<>>
             /\ result.masterPlaylistUrl # ""
             /\ result.error = NoError
        /\ ~result.success =>
             /\ result.outputFiles = <<>>
             /\ result.masterPlaylistUrl = ""
             /\ result.error \notin {NoError, ""}

\* C16 witness: the handler returned a success result and the failure result
\* of a run that had uploaded objects before a push failed.
C16_Witness ==
  /\ pc = "returned"
  /\ \E k \in DOMAIN processingResults : processingResults[k].success
  /\ \E k \in DOMAIN runs :
       /\ ~processingResults[k].success
       /\ \E p \in LogOf(runs[k].rec, "PutObject") : log[p].ok

(***************************************************************************)
(* C17. The claim as made: every codec failure, the missing binary that    *)
(* validateFFmpegBinary finds included, ends the run with success = false  *)
(* and an error text that contains the name of a tier (for a failed        *)
(* encode, the tier being encoded).                                        *)
(***************************************************************************)
\* The error text names one of the tiers
NamesSomeTier(text) == \E q \in DOMAIN qualities : includes(text, qualities[q])

\* The run for record r made no codec invocation and no push after position p
NothingAfter(r, p) ==
  \A q \in LogOf(r, "ffmpeg") \cup LogOf(r, "PutObject") \cup LogOf(r, "writeFile") : q <= p

C17_CodecFailureNamesTheTier ==
  \A k \in DOMAIN runs :
    Collected(runs[k].rec) =>
      /\ \A p \in LogOf(runs[k].rec, "ffmpeg") :
           ~log[p].ok => /\ ~ResultOfRun(k).success
                         /\ includes(ResultOfRun(k).error, log[p].arg)
      /\ \A p \in LogOf(runs[k].rec, "access") :
           ~log[p].ok => /\ ~ResultOfRun(k).success
                         /\ NamesSomeTier(ResultOfRun(k).error)

\* C17, amended: a failed ffmpeg invocation (non-zero exit or timeout) ends the
\* run at once with success = false and an error text that contains the name of
\* the tier being encoded; a binary that validateFFmpegBinary finds missing ends
\* the run before any tier is encoded, with success = false and an error text
\* that contains the path of the binary and the name of no tier.
C17_EncodeFailureNamesTheTier ==
  \A k \in DOMAIN runs :
    /\ \A p \in LogOf(runs[k].rec, "ffmpeg") :
         ~log[p].ok =>
           /\ NothingAfter(runs[k].rec, p)
           /\ Collected(runs[k].rec) =>
                /\ ~ResultOfRun(k).success
                /\ includes(ResultOfRun(k).error, log[p].arg)
    /\ \A p \in LogOf(runs[k].rec, "access") :
         ~log[p].ok =>
           /\ NothingAfter(runs[k].rec, 0)
           /\ Collected(runs[k].rec) =>
                /\ ~ResultOfRun(k).success
                /\ includes(ResultOfRun(k).error, FFMPEG_PATH)
                /\ ~NamesSomeTier(ResultOfRun(k).error)

\* C17 witness: the handler returned after a run that the validation of the
\* binary ended and a run whose 720p encode timed out.
C17_Witness ==
  /\ pc = "returned"
  /\ \E p \in DOMAIN log : log[p].op = "access" /\ ~log[p].ok
  /\ \E k \in DOMAIN processingResults :
       /\ includes(processingResults[k].error, "720p")
       /\ includes(processingResults[k].error, "ETIMEDOUT")

(***************************************************************************)
(* C18. Two runs on the same source key give the same master manifest and  *)
(* the same manifest keys: the master manifest a run has written locally   *)
(* is byte-identical to the master manifest an earlier run of the same     *)
(* base name pushed to the run's master key, and two successful runs on    *)
(* the same key report the same manifest keys, in the same order.          *)
(***************************************************************************)
IsManifestKey(key) == endsWith(key, ".m3u8")

\* The local path of the master manifest of a run
MasterPathOf(run) == run.tempOutput \o "/" \o basename(run.key, ".mp4") \o ".m3u8"

C18_MasterIsAFunctionOfTheBaseName ==
  /\ \A k \in DOMAIN runs :
       LET masterKey == MasterKeyOf(runs[k])
           masterPath == MasterPathOf(runs[k])
       IN  \A o \in {x \in store : x.key = masterKey} :
             \A f \in {y \in disk : y.path = masterPath} : o.body = f.body
  /\ \A j, k \in DOMAIN runs :
       (/\ j < k
        /\ runs[j].key = runs[k].key
        /\ Collected(runs[j].rec) /\ Collected(runs[k].rec)
        /\ ResultOfRun(j).success /\ ResultOfRun(k).success)
         => SelectSeq(ResultOfRun(j).outputFiles, IsManifestKey)
              = SelectSeq(ResultOfRun(k).outputFiles, IsManifestKey)

\* C18 witness: the handler returned two successful runs on the same key that
\* started at different times.
C18_Witness ==
  /\ pc = "returned"
  /\ \E j, k \in DOMAIN runs :
       /\ j < k
       /\ runs[j].key = runs[k].key
       /\ runs[j].tempInput # runs[k].tempInput
       /\ processingResults[j].success /\ processingResults[k].success

(***************************************************************************)
(* C19. The naming of segments is invertible, hence injective: the name    *)
(* {baseName}_{tier}_{NNN}.ts, read from the right (the suffix, the digits *)
(* after the last underscore, the tier after the underscore before it, the *)
(* base name before that), gives back the base name, the tier and the      *)
(* index it was formed from, also for base names with underscores or       *)
(* digits; and no other base name or tier gives the same name for the same *)
(* index, the next index or the first index.                               *)
(***************************************************************************)
\* The number a string of decimal digits denotes
RECURSIVE ParseNat(_)
ParseNat(digits) ==
  IF digits = "" THEN 0
  ELSE ParseNat(SubSeq(digits, 1, Len(digits) - 1)) * 10
       + (Max(Positions("0123456789", SubSeq(digits, Len(digits), Len(digits)))) - 1)

\* The triple a segment file name is read as
ParseSegmentName(name) ==
  LET stem == SubSeq(name, 1, Len(name) - Len(".ts"))
      indexAt == Max(Positions(stem, "_"))
      front == SubSeq(stem, 1, indexAt - 1)
      tierAt == Max(Positions(front, "_"))
  IN  [baseName |-> SubSeq(front, 1, tierAt - 1),
       tier |-> SubSeq(front, tierAt + 1, Len(front)),
       index |-> ParseNat(SubSeq(stem, indexAt + 1, Len(stem)))]

C19_SegmentNameRoundTrips ==
  pc = "named" =>
    \A name \in segmentFiles :
      /\ endsWith(name, ".ts")
      /\ ParseSegmentName(name)
           = [baseName |-> videoName, tier |-> qualities[tier], index |-> segments]
      /\ \A b \in BaseNames, q \in DOMAIN qualities,
            i \in {0, segments, segments + 1} :
           <<b, q, i>> # <<videoName, tier, segments>>
             => SegmentName(b, qualities[q], i) # name

\* C19 witness: a name has been formed for a base name with underscores and
\* digits and an index of more than three digits.
C19_Witness ==
  /\ pc = "named"
  /\ videoName = "v_480p_000"
  /\ segments > 999
  /\ segmentFiles # {}

(***************************************************************************)
(* C20. Every object a run has pushed is a manifest (its key ends in       *)
(* ".m3u8") with the content type application/vnd.apple.mpegurl and the    *)
(* cache directive no-cache, or a segment (its key ends in ".ts") with the *)
(* content type video/mp2t and the one-year cache directive                *)
(* max-age=31536000; no pushed object has any other metadata.              *)
(***************************************************************************)
\* The keys the runs have pushed so far
PushedKeys ==
  {log[p].arg : p \in {q \in DOMAIN log : log[q].op = "PutObject" /\ log[q].ok}}

OkOf(r, op) == \A p \in LogOf(r, op) : log[p].ok

\* The outcomes of the steps of the run for record r
OutcomesOf(r) ==
  [download |-> OkOf(r, "GetObject"),
   encode |-> [q \in DOMAIN qualities |->
                 \A p \in LogOf(r, "ffmpeg") : log[p].arg = qualities[q] => log[p].ok],
   write |-> OkOf(r, "writeFile"),
   pushFailed |-> {log[p].arg : p \in {x \in LogOf(r, "PutObject") : ~log[x].ok}}]

\* The downloads, encodes and pushes an operation sequence holds
IsTransfer(entry) == entry.op \in {"GetObject", "ffmpeg", "PutObject"}

\* The operations of the run for record r, with the metadata of what it pushed
OperationsOf(r) ==
  LET entries == SelectSeq(log, LAMBDA e : e.rec = r /\ IsTransfer(e))
      pushed(key) == CHOOSE o \in store : o.key = key
  IN  [i \in DOMAIN entries |->
         [op |-> entries[i].op, arg |-> entries[i].arg, ok |-> entries[i].ok,
          contentType |-> IF entries[i].op = "PutObject" /\ entries[i].ok
                            THEN pushed(entries[i].arg).contentType ELSE "",
          cacheControl |-> IF entries[i].op = "PutObject" /\ entries[i].ok
                             THEN pushed(entries[i].arg).cacheControl ELSE ""]]

\* The first run of the process has been left, and its scratch directory and
\* the ffmpeg binary were there
FirstRunLeft ==
  /\ Len(runs) = 1
  /\ Exited(runs[1].rec)
  /\ runs[1].rec = idx
  /\ OkOf(idx, "mkdir") /\ OkOf(idx, "access")

C21_LambdaMatchesScript ==
  FirstRunLeft =>
    LET script == convert_mp4_to_hls(s3Key, OutcomesOf(idx), segments)
    IN  /\ OperationsOf(idx) = SelectSeq(script.ops, IsTransfer)
        /\ script.cleaned <=> LogOf(idx, "cleanupFiles") # {}

\* The same without the comparison of the deletion of the temporary files
C21_SameTransfers ==
  FirstRunLeft =>
    OperationsOf(idx) = SelectSeq(convert_mp4_to_hls(s3Key, OutcomesOf(idx), segments).ops,
                                  IsTransfer)

(***************************************************************************)
(* C22. The pipeline never re-triggers itself: for no key a run pushes     *)
(* would the handler, given the notification of that object, start a run   *)
(* (the key does not pass its filters), so the only runs are those of the  *)
(* records of externally uploaded ".mp4" objects: there are no more runs   *)
(* than such records. (Every push is the last operation of the history in  *)
(* the state it leads to, so the key of the last operation is examined.)   *)
(***************************************************************************)
\* The handler would call convertMp4ToHls for a record with this raw key
WouldStartRun(rawKey) ==
  LET decoded == decodeURIComponent(replacePlus(rawKey))
  IN  /\ decoded.ok
      /\ isMp4(decoded.value)
      /\ ~isProcessedOutput(decoded.value)

\* The keys the runs have tried to push so far
PutKeys == {log[p].arg : p \in {q \in DOMAIN log : log[q].op = "PutObject"}}

C22_NoPushedKeyStartsARun ==
  /\ (log # <<>> /\ log[Len(log)].op = "PutObject") => ~WouldStartRun(log[Len(log)].arg)
  /\ Len(runs) <= Cardinality({i \in DOMAIN records :
                                 sourceKey(i).ok /\ EndsInMp4(sourceKey(i).value)})

\* C22 witness: the handler returned after a run pushed its master manifest,
\* a sub-manifest and a segment.
C22_Witness ==
  /\ pc = "returned"
  /\ Len(runs) = 1
  /\ \E key \in PutKeys : endsWith(key, "_1080p_000.ts")
  /\ \E key \in PutKeys : endsWith(key, "_480p.m3u8")
  /\ \E key \in PutKeys : endsWith(key, "/v.m3u8")

(***************************************************************************)
(* C23. Every run goes through its stages in the order Fetching, Encoding, *)
(* Manifesting, Pushing, CleaningUp, Done: an operation of a stage is made *)
(* only after every earlier operation of the run succeeded and the stages  *)
(* before it were gone through, a failure leads directly to CleaningUp     *)
(* (the catch block) and then to Done, and no operation of the run follows *)
(* its cleanup. (Every operation is the last of the history in the state   *)
(* it leads to, so the last operation is compared with the earlier ones.)  *)
(***************************************************************************)
\* The stage an operation belongs to; the scratch directory and the check of
\* the binary prepare the encodes
StageOf(op) ==
  CASE op = "convertMp4ToHls" -> 0
    [] op = "GetObject" -> 1
    [] op \in {"mkdir", "access", "ffmpeg"} -> 2
    [] op = "writeFile" -> 3
    [] op \in {"PutObject", "readFile", "readdir"} -> 4
    [] op = "cleanupFiles" -> 5

\* The positions of the operations of the run of the last operation, before it
EarlierOfLastRun ==
  {p \in 1..(Len(log) - 1) : log[p].rec = log[Len(log)].rec}

\* The operations that must have been made before an operation of this kind
NeededBefore(op) ==
  CASE op = "GetObject" -> {"convertMp4ToHls"}
    [] op = "mkdir" -> {"GetObject"}
    [] op = "access" -> {"mkdir"}
    [] op = "ffmpeg" -> {"access"}
    [] op = "writeFile" -> {"ffmpeg"}
    [] op \in {"PutObject", "readFile"} -> {"writeFile"}
    [] op = "readdir" -> {"PutObject"}
    [] OTHER -> {}

C23_StagesInOrder ==
  log # <<>> =>
    LET last == log[Len(log)]
    IN  /\ \A p \in EarlierOfLastRun : StageOf(log[p].op) <= StageOf(last.op)
        /\ last.op # "cleanupFiles" =>
             /\ \A p \in EarlierOfLastRun : log[p].ok /\ log[p].op # "cleanupFiles"
             /\ \A op \in NeededBefore(last.op) : \E p \in EarlierOfLastRun : log[p].op = op
             /\ last.op = "writeFile" =>
                  Cardinality({p \in EarlierOfLastRun : log[p].op = "ffmpeg"}) = Len(qualities)
             /\ ~last.ok <=> pc = "catch"
        /\ last.op = "cleanupFiles" =>
             /\ \A p \in EarlierOfLastRun : log[p].op # "cleanupFiles"
             /\ pc \in {"return", "throw", "loop", "returned", "thrown"}
             /\ (last.rec = idx /\ pc = "return") <=>
                  (last.rec = idx /\ \A p \in EarlierOfLastRun : log[p].ok)

\* C23 witness: the handler returned after a run that failed in Manifesting
\* and a run that went through every stage.
C23_Witness ==
  /\ pc = "returned"
  /\ \E p \in DOMAIN log : log[p].op = "writeFile" /\ ~log[p].ok
  /\ \E k \in DOMAIN processingResults : processingResults[k].success

(***************************************************************************)
(* C24. Within one run the tiers are encoded strictly in the order 480p,   *)
(* 720p, 1080p, one at a time: the ffmpeg invocations of a run, in the     *)
(* order they were made, are the first tiers of that list, each tier once, *)
(* and every invocation but the last one made has returned successfully.   *)
(* (execSync blocks until ffmpeg has exited: an invocation is one step.)   *)
(***************************************************************************)
\* The ffmpeg invocations of the run for record r, in the order they were made
EncodesOf(r) == SelectSeq(log, LAMBDA e : e.rec = r /\ e.op = "ffmpeg")

C24_TiersEncodedInOrder ==
  \A k \in DOMAIN runs :
    LET encodes == EncodesOf(runs[k].rec)
    IN  /\ Len(encodes) <= 3
        /\ \A i \in DOMAIN encodes :
             /\ encodes[i].arg = <<"480p", "720p", "1080p">>[i]
             /\ i < Len(encodes) => encodes[i].ok

\* C24 witness: the handler returned after a run that encoded the three tiers
\* and a run whose second encode failed.
C24_Witness ==
  /\ pc = "returned"
  /\ \E k \in DOMAIN runs :
       Len(EncodesOf(runs[k].rec)) = 3 /\ EncodesOf(runs[k].rec)[3].ok
  /\ \E k \in DOMAIN runs :
       Len(EncodesOf(runs[k].rec)) = 2 /\ ~EncodesOf(runs[k].rec)[2].ok

(***************************************************************************)
(* C25. Within one run the pushes are made in the order master manifest,   *)
(* sub-manifests of 480p, 720p, 1080p, then segments: the first push of a  *)
(* run is on its master manifest key, the second to fourth on the          *)
(* sub-manifest keys in tier order, and every later push is on a segment.  *)
(***************************************************************************)
\* The pushes of the run for record r, in the order they were made
PushesOf(r) == SelectSeq(log, LAMBDA e : e.rec = r /\ e.op = "PutObject")

C25_MasterThenSubManifestsThenSegments ==
  \A k \in DOMAIN runs :
    LET pushes == PushesOf(runs[k].rec)
        stem == dirname(runs[k].key) \o "/" \o basename(runs[k].key, ".mp4")
        manifests == <<stem \o ".m3u8", stem \o "_480p.m3u8", stem \o "_720p.m3u8",
                       stem \o "_1080p.m3u8">>
    IN  \A i \in DOMAIN pushes :
          /\ i <= Len(manifests) => pushes[i].arg = manifests[i]
          /\ i > Len(manifests) => endsWith(pushes[i].arg, ".ts")
          /\ i < Len(pushes) => pushes[i].ok

\* C25 witness: a run has pushed its four manifests and two segments.
C25_Witness ==
  \E k \in DOMAIN runs :
    /\ Len(PushesOf(runs[k].rec)) = 6
    /\ PushesOf(runs[k].rec)[6].ok

(***************************************************************************)
(* C26. Within one invocation the records are processed one after the      *)
(* other in record order: the operations of the runs are not interleaved   *)
(* (no operation of an earlier record follows an operation of a later      *)
(* one), a run starts only after every earlier run made its cleanup and    *)
(* the handler pushed its result, and the results are in record order,     *)
(* each for the key of its run.                                            *)
(***************************************************************************)
C26_RecordsProcessedInOrder ==
  /\ \A p \in 1..(Len(log) - 1) : log[p].rec <= log[p + 1].rec
  /\ \A j, k \in DOMAIN runs : j < k => runs[j].rec < runs[k].rec
  /\ \A k \in DOMAIN runs :
       k < Len(runs) =>
         /\ LogOf(runs[k].rec, "cleanupFiles") # {}
         /\ k <= Len(processingResults)
  /\ Len(processingResults) <= Len(runs)
  /\ \A k \in DOMAIN processingResults : processingResults[k].inputKey = runs[k].key

\* C26 witness: the handler returned the results of two runs on different
\* keys, the first failed and the second successful.
C26_Witness ==
  /\ pc = "returned"
  /\ Len(processingResults) = 2
  /\ processingResults[1].inputKey # processingResults[2].inputKey
  /\ ~processingResults[1].success
  /\ processingResults[2].success

(***************************************************************************)
(* s3Client.send under the client's retry configuration: the S3 requests   *)
(* of one run of convertMp4ToHls, attempt by attempt.  The client is       *)
(* constructed with maxAttempts: 3, so one send makes up to three          *)
(* requests: a request that fails with a retryable error (a 5xx answer, a  *)
(* throttle, a connection error) is made again while attempts are left; a  *)
(* non-retryable error (403, 404), or a retryable one on the last attempt, *)
(* rejects the send.  Every request is one entry of log.                   *)
(***************************************************************************)
\* new S3Client({ region, maxAttempts: 3 })
maxAttempts == 3

\* The source keys of the runs whose requests are followed
SendKeys == {"a/v.mp4", "v.mp4"}

\* The most segments per quality in those runs
SendSegs == 1

\* The segments on disk when uploadHlsFiles lists them, n per quality, as the
\* uploads of the segment loop
SegmentUploads(n) ==
  [k \in 1..(Len(qualities) * n) |->
     SegmentUpload(SegmentName(videoName, qualities[((k - 1) \div n) + 1], (k - 1) % n))]

\* One run, at its first request: the download of the source
SendInit ==
  /\ s3Key \in SendKeys
  /\ segments \in 1..SendSegs
  /\ records = <<s3Key>>
  /\ idx = 1
  /\ videoDir = dirname(s3Key)
  /\ videoName = basename(s3Key, ".mp4")
  /\ tempInput = TempInput(videoName, 1)
  /\ tempOutput = TempOutput(videoName)
  /\ queue = ManifestUploads \o SegmentUploads(segments)
  /\ pc = "download"
  /\ tier = 1
  /\ processingResults = <<>>
  /\ segmentFiles = {}
  /\ uploadedFiles = <<>>
  /\ error = NoError
  /\ now = 1
  /\ store = {}
  /\ disk = {}
  /\ log = <<>>
  /\ runs = <<[rec |-> 1, key |-> s3Key, tempInput |-> tempInput, tempOutput |-> tempOutput]>>

\* The command of the send in progress: GetObjectCommand of downloadMp4FromS3,
\* or PutObjectCommand of uploadFile
Command ==
  IF pc = "download" THEN [op |-> "GetObject", arg |-> s3Key]
  ELSE [op |-> "PutObject", arg |-> Head(queue).key]

\* The requests made so far for the command of the send in progress
Attempts ==
  Cardinality({p \in DOMAIN log : log[p].op = Command.op /\ log[p].arg = Command.arg})

\* A request succeeds: the send resolves, and the run goes on to its next send
SendAttemptOk ==
  /\ pc \in {"download", "upload"}
  /\ Attempts < maxAttempts
  /\ log' = Append(log, LogEntry(Command.op, Command.arg, TRUE))
  /\ queue' = IF pc = "download" THEN queue ELSE Tail(queue)
  /\ uploadedFiles' = IF pc = "download" THEN uploadedFiles
                      ELSE Append(uploadedFiles, Command.arg)
  /\ pc' = IF queue' = <<>> THEN "cleanup" ELSE "upload"
  /\ UNCHANGED <<records, idx, processingResults, s3Key, videoDir, videoName, tempInput,
                 tempOutput, tier, segments, segmentFiles, error, now, store, disk, runs>>

\* A request fails with a retryable error and attempts are left: the client
\* makes the request again, inside the same send
SendAttemptRetry ==
  /\ pc \in {"download", "upload"}
  /\ Attempts + 1 < maxAttempts
  /\ log' = Append(log, LogEntry(Command.op, Command.arg, FALSE))
  /\ UNCHANGED <<records, idx, pc, processingResults, s3Key, videoDir, videoName, tempInput,
                 tempOutput, tier, segments, queue, segmentFiles, uploadedFiles, error, now,
                 store, disk, runs>>

\* A request fails with a non-retryable error, or with a retryable one on the
\* last attempt: the send rejects and convertMp4ToHls goes to its catch block
SendAttemptReject ==
  /\ pc \in {"download", "upload"}
  /\ Attempts < maxAttempts
  /\ \E retryable \in BOOLEAN :
       /\ retryable => Attempts + 1 = maxAttempts
       /\ Throw(IF retryable THEN "Service Unavailable" ELSE "Access Denied")
  /\ log' = Append(log, LogEntry(Command.op, Command.arg, FALSE))
  /\ UNCHANGED <<records, idx, processingResults, s3Key, videoDir, videoName, tempInput,
                 tempOutput, tier, segments, queue, segmentFiles, uploadedFiles, now,
                 store, disk, runs>>

\* cleanupFiles, after the uploads or in the catch block: the run is over
SendCleanup ==
  /\ pc \in {"cleanup", "catch"}
  /\ log' = Append(log, LogEntry("cleanupFiles", tempOutput, TRUE))
  /\ pc' = "done"
  /\ UNCHANGED <<records, idx, processingResults, s3Key, videoDir, videoName, tempInput,
                 tempOutput, tier, segments, queue, segmentFiles, uploadedFiles, error, now,
                 store, disk, runs>>

SendNext ==
  \/ SendAttemptOk
  \/ SendAttemptRetry
  \/ SendAttemptReject
  \/ SendCleanup

SendSpec == SendInit /\ [][SendNext]_vars

(***************************************************************************)
(* C27. No failed operation is retried inside a run: the fetch, the codec  *)
(* invocation of each tier, the manifest write and the push of each object *)
(* are attempted at most once, and a failure of any of them ends the run   *)
(* (only the cleanup follows it).                                          *)
(***************************************************************************)
\* The fetches, codec invocations, manifest writes and pushes of record r
AttemptsOf(r) ==
  {p \in DOMAIN log :
     log[p].rec = r /\ log[p].op \in {"GetObject", "ffmpeg", "writeFile", "PutObject"}}

\* No two attempts of record r are of the same operation on the same
\* argument, and a failed one is followed by nothing but the cleanup
NothingRetried(r) ==
  /\ \A p, q \in AttemptsOf(r) :
       p < q => ~(log[p].op = log[q].op /\ log[p].arg = log[q].arg)
  /\ \A p \in AttemptsOf(r) :
       ~log[p].ok => \A q \in DOMAIN log :
                       (q > p /\ log[q].rec = r) => log[q].op = "cleanupFiles"

\* C27: violated over the requests the S3 client makes, where a failed
\* GetObject or PutObject request is made again inside the run.  (Over the
\* calls convertMp4ToHls makes, each send taken as one operation, it holds.)
C27_NoOperationRetried == \A r \in DOMAIN records : NothingRetried(r)

(***************************************************************************)
(* One invocation against the clock: the run of one record, with the time  *)
(* each step takes (now, in milliseconds since the invocation began), the  *)
(* timeout execSync puts on every ffmpeg invocation and the timeout of the *)
(* Lambda function, at which the runtime ends the invocation wherever it   *)
(* is.                                                                     *)
(***************************************************************************)
\* execSync(..., { timeout: 600000 }): 10 minutes per quality
execTimeout == 600000

\* timeout: Duration.minutes(15), in minutes
lambdaTimeoutMinutes == 15

\* The step of the clock: one minute, in milliseconds
TimeStep == 60000

\* The Lambda timeout, in milliseconds
lambdaTimeout == lambdaTimeoutMinutes * TimeStep

\* What a download, an upload or a cleanup may take
ShortDurations == {0, TimeStep, 2 * TimeStep}

\* What an ffmpeg invocation that ends by itself may take: less than the
\* timeout of execSync
EncodeDurations == {k * TimeStep : k \in 1..((execTimeout \div TimeStep) - 1)}

\* What the Lambda runtime reports when it ends the invocation
TaskTimedOut == "Task timed out after 900.00 seconds"

ClockInit ==
  /\ records \in {<<"a/v.mp4">>, <<"v.mp4">>}
  /\ idx = 1
  /\ s3Key = sourceKey(1).value
  /\ videoDir = dirname(s3Key)
  /\ videoName = basename(s3Key, ".mp4")
  /\ tempInput = TempInput(videoName, 1)
  /\ tempOutput = TempOutput(videoName)
  /\ runs = <<[rec |-> 1, key |-> s3Key, tempInput |-> tempInput, tempOutput |-> tempOutput]>>
  /\ log = <<LogEntry("convertMp4ToHls", s3Key, TRUE)>>
  /\ pc = "download"
  /\ now = 0
  /\ tier = 1
  /\ segments = 0
  /\ queue = <<>>
  /\ segmentFiles = {}
  /\ uploadedFiles = <<>>
  /\ processingResults = <<>>
  /\ error = NoError
  /\ store = {}
  /\ disk = {}

\* The variables the clock leaves alone
clockFrame == <<records, idx, s3Key, videoDir, videoName, tempInput, tempOutput, segments,
                queue, segmentFiles, uploadedFiles, store, disk, runs>>

\* downloadMp4FromS3, mkdir and validateFFmpegBinary are done before the
\* Lambda timeout
ClockDownload ==
  /\ pc = "download"
  /\ \E d \in ShortDurations : now + d < lambdaTimeout /\ now' = now + d
  /\ log' = Append(log, LogEntry("GetObject", s3Key, TRUE))
  /\ pc' = "encode"
  /\ UNCHANGED <<clockFrame, tier, processingResults, error>>

\* execSync returns before its timeout and before the Lambda timeout
ClockEncodeOk ==
  /\ pc = "encode"
  /\ \E d \in EncodeDurations : now + d < lambdaTimeout /\ now' = now + d
  /\ log' = Append(log, LogEntry("ffmpeg", qualities[tier], TRUE))
  /\ tier' = tier + 1
  /\ pc' = IF tier = Len(qualities) THEN "upload" ELSE "encode"
  /\ UNCHANGED <<clockFrame, processingResults, error>>

\* ffmpeg hangs: execSync blocks the event loop until its timeout
ClockEncodeStuck ==
  /\ pc = "encode"
  /\ log' = Append(log, LogEntry("ffmpeg", qualities[tier], FALSE))
  /\ pc' = "stuck"
  /\ UNCHANGED <<clockFrame, tier, now, processingResults, error>>

\* The timeout of execSync comes first: the child is killed and
\* generateQualityHLS throws
ClockExecTimeout ==
  /\ pc = "stuck"
  /\ now + execTimeout < lambdaTimeout
  /\ now' = now + execTimeout
  /\ Throw("FFmpeg processing failed for " \o qualities[tier] \o ": spawnSync /bin/sh ETIMEDOUT")
  /\ UNCHANGED <<clockFrame, tier, processingResults, log>>

\* The Lambda timeout comes first: the runtime ends the invocation in the
\* middle of the step in progress; no catch block and no cleanup runs
ClockLambdaTimeout ==
  /\ \/ pc = "stuck" /\ now + execTimeout >= lambdaTimeout
     \/ pc = "encode" /\ \E d \in EncodeDurations : now + d >= lambdaTimeout
     \/ pc \in {"download", "upload", "catch"}
          /\ \E d \in ShortDurations : now + d >= lambdaTimeout
  /\ now' = lambdaTimeout
  /\ error' = TaskTimedOut
  /\ pc' = "killed"
  /\ UNCHANGED <<clockFrame, tier, processingResults, log>>

\* createMasterPlaylist, uploadHlsFiles and cleanupFiles are done before the
\* Lambda timeout, and the handler returns the success result
ClockUpload ==
  /\ pc = "upload"
  /\ \E d \in ShortDurations : now + d < lambdaTimeout /\ now' = now + d
  /\ log' = Append(log, LogEntry("cleanupFiles", tempOutput, TRUE))
  /\ processingResults' = Append(processingResults, SuccessResult)
  /\ pc' = "returned"
  /\ UNCHANGED <<clockFrame, tier, error>>

\* The catch blocks: cleanupFiles is done before the Lambda timeout, and the
\* handler returns the failure result
ClockCatch ==
  /\ pc = "catch"
  /\ \E d \in ShortDurations : now + d < lambdaTimeout /\ now' = now + d
  /\ log' = Append(log, LogEntry("cleanupFiles", tempOutput, TRUE))
  /\ processingResults' = Append(processingResults, FailureResult)
  /\ pc' = "returned"
  /\ UNCHANGED <<clockFrame, tier, error>>

ClockNext ==
  \/ ClockDownload
  \/ ClockEncodeOk
  \/ ClockEncodeStuck
  \/ ClockExecTimeout
  \/ ClockLambdaTimeout
  \/ ClockUpload
  \/ ClockCatch

ClockSpec == ClockInit /\ [][ClockNext]_vars

(***************************************************************************)
(* C28. The per-tier codec timeout (10 minutes) is shorter than the        *)
(* invocation deadline (15 minutes), and a run in which an encode gets     *)
(* stuck, at whatever tier and however long the earlier tiers took within  *)
(* their timeout, is never ended by the deadline: it makes its cleanup and *)
(* the handler returns its failure result before the deadline.             *)
(***************************************************************************)
\* An ffmpeg invocation of the run got stuck
EncodeGotStuck == \E p \in DOMAIN log : log[p].op = "ffmpeg" /\ ~log[p].ok

\* C28: violated, an encode that gets stuck at the second or third tier
\* after five minutes or more is still running when the Lambda timeout ends
\* the invocation.
C28_StuckEncodeFailsBeforeDeadline ==
  /\ execTimeout < lambdaTimeout
  /\ EncodeGotStuck => pc # "killed"
  /\ (EncodeGotStuck /\ pc = "returned") =>
       /\ now < lambdaTimeout
       /\ LogOf(1, "cleanupFiles") # {}
       /\ Len(processingResults) = 1
       /\ ~processingResults[1].success

(***************************************************************************)
(* C29. For each tier of the plan, the BANDWIDTH value written in the      *)
(* master manifest equals the tier's video bitrate ceiling plus its audio  *)
(* bitrate, in bits per second (1128000, 2628000, 5192000), and the values *)
(* are strictly increasing in tier order.                                  *)
(***************************************************************************)
\* The bits per second a bitrate argument of ffmpeg denotes: "1000k" is
\* 1000 * 1000
BitsPerSecond(bitrate) == ParseNat(SubSeq(bitrate, 1, Len(bitrate) - Len("k"))) * 1000

\* The tag a variant stream line begins with, up to its bandwidth
BandwidthTag == "#EXT-X-STREAM-INF:BANDWIDTH="

\* The BANDWIDTH attribute of a variant stream line: the digits between the
\* tag and the first comma
BandwidthOf(line) ==
  LET commas == Positions(line, ",")
      comma == CHOOSE p \in commas : \A q \in commas : p <= q
  IN  ParseNat(SubSeq(line, Len(BandwidthTag) + 1, comma - 1))

\* The BANDWIDTH values of a master manifest, in the order of its lines
BandwidthsOf(text) ==
  LET streams == SelectSeq(SplitLines(text), IsStreamInfLine)
  IN  [k \in DOMAIN streams |-> BandwidthOf(streams[k])]

\* The sums the three literals of the claim stand for
ExpectedBandwidths == <<1128000, 2628000, 5192000>>

C29_BandwidthIsVideoPlusAudio ==
  MasterJustWritten =>
    \A f \in disk :
      f.path = log[Len(log)].arg =>
        LET bandwidths == BandwidthsOf(f.body)
        IN  /\ Len(bandwidths) = Len(qualityConfigs)
            /\ \A q \in DOMAIN qualityConfigs :
                 /\ bandwidths[q] = BitsPerSecond(qualityConfigs[q].videoBitrate)
                                    + BitsPerSecond(qualityConfigs[q].audioBitrate)
                 /\ bandwidths[q] = ExpectedBandwidths[q]
                 /\ qualityConfigs[q].name = qualities[q]
            /\ \A q \in 1..(Len(bandwidths) - 1) : bandwidths[q] < bandwidths[q + 1]

\* C29 witness: the master manifest of the second record of a batch has just
\* been written, with three variant streams.
C29_Witness ==
  /\ MasterJustWritten
  /\ log[Len(log)].rec = 2
  /\ \E f \in disk : f.path = log[Len(log)].arg /\ Len(BandwidthsOf(f.body)) = 3

(***************************************************************************)
(* The handler under the scheduling of the Node.js event loop: a step that *)
(* can be taken is taken.  Every await of the handler is on a promise that *)
(* settles once the fetch, the push or the file operation behind it has    *)
(* answered, and execSync returns or throws by its timeout; the event loop *)
(* then runs the continuation, so the handler never stops while one of its *)
(* steps is enabled.                                                       *)
(***************************************************************************)
\* The record keys for which the handler starts a run
StartsRun(rawKey) ==
  LET key == DecodedKeys[rawKey]
  IN  key.ok /\ isMp4(key.value) /\ ~isProcessedOutput(key.value)

\* The batches followed to their end: those with at most one record that
\* starts a run, and one with two runs
LiveBatches ==
  {batch \in Batches : Cardinality({i \in DOMAIN batch : StartsRun(batch[i])}) <= 1}
  \cup {<<"a/v.mp4", "v.mp4">>}

LiveInit == Init /\ records \in LiveBatches

FairSpec == LiveInit /\ [][Next]_vars /\ WF_vars(Next)

(***************************************************************************)
(* C30. For every finite batch, when every fetch, codec invocation and     *)
(* push eventually answers with success or failure, every started run      *)
(* eventually reaches Done (its cleanup made, its result collected) and    *)
(* the handler eventually returns.                                         *)
(***************************************************************************)
\* A run was started for record r
RunStarted(r) == LogOf(r, "convertMp4ToHls") # {}

\* The run of record r is done: its cleanup was made and the handler has
\* collected its result
RunDone(r) == LogOf(r, "cleanupFiles") # {} /\ Collected(r)

\* Every started run eventually is done
EveryRunEnds == \A r \in 1..MaxRecords : RunStarted(r) ~> RunDone(r)

\* C30: violated, on a batch with a key that does not decode the handler
\* ends by throwing (C6) and never returns.
C30_EveryRunEndsAndTheHandlerReturns ==
  /\ EveryRunEnds
  /\ <>(pc = "returned")

\* What holds of C30: every started run eventually is done, and the handler
\* eventually ends, by returning or by throwing.
C30_EveryRunEndsAndTheHandlerEnds ==
  /\ EveryRunEnds
  /\ <>(pc \in {"returned", "thrown"})

(***************************************************************************)
(* C31. On every successful run, the outputFiles list of the result is     *)
(* exactly the sequence of keys the run pushed to the object store, in     *)
(* push order and without duplicates, and the path of masterPlaylistUrl    *)
(* equals the first of those keys.                                         *)
(***************************************************************************)
\* The part of a URL of the bucket after its host: the path, without the
\* leading slash
UrlHost == "https://" \o sourceBucket \o ".s3." \o AWS_REGION \o ".amazonaws.com/"
PathOfUrl(url) == SubSeq(url, Len(UrlHost) + 1, Len(url))

C31_OutputFilesAreThePushedKeys ==
  \A k \in DOMAIN processingResults :
    processingResults[k].success =>
      LET result == processingResults[k]
          pushes == PushesOf(runs[k].rec)
      IN  /\ result.outputFiles = [i \in DOMAIN pushes |-> pushes[i].arg]
          /\ \A i \in DOMAIN pushes : pushes[i].ok
          /\ \A i, j \in DOMAIN result.outputFiles :
               i < j => result.outputFiles[i] # result.outputFiles[j]
          /\ result.outputFiles # <<>>
          /\ startsWith(result.masterPlaylistUrl, UrlHost)
          /\ PathOfUrl(result.masterPlaylistUrl) = result.outputFiles[1]

\* C31 witness: the handler returned the successful result of a run that
\* pushed its four manifests and six segments.
C31_Witness ==
  /\ pc = "returned"
  /\ \E k \in DOMAIN processingResults :
       /\ processingResults[k].success
       /\ Len(processingResults[k].outputFiles) = 4 + Len(qualities) * MaxSegs
       /\ Len(PushesOf(runs[k].rec)) = 4 + Len(qualities) * MaxSegs

(***************************************************************************)
(* The MediaConvert handler (src/handler.ts): for every record with an     *)
(* .mp4 key it discovers the endpoint and submits a CreateJob with the     *)
(* with-audio settings; when that fails with an audio-related message it   *)
(* submits the video-only settings once.  results is held in               *)
(* processingResults, the requests made in log, and the value the handler  *)
(* returns in queue.                                                       *)
(***************************************************************************)
\* process.env.OUTPUT_BUCKET || ""
OUTPUT_BUCKET == ""

\* The messages a failed request may carry
McErrorMessages ==
  { "Access Denied",
    "Invalid selector_sequence_id in output 1",
    "audio_description is not valid",
    "Audio selector 1 not found",
    "No audio track in input",
    "no audio stream" }     \* lower case: not matched by the test of the handler

\* The test of the inner catch block on the message of the error
isAudioError(errorMsg) ==
  \/ includes(errorMsg, "selector_sequence_id")
  \/ includes(errorMsg, "audio_description")
  \/ includes(errorMsg, "Audio selector")
  \/ includes(errorMsg, "No audio")

\* rawKey.includes("/") ? rawKey.substring(0, rawKey.lastIndexOf("/") + 1) : ""
dirOf(rawKey) == IF includes(rawKey, "/") THEN SubSeq(rawKey, 1, LastSlash(rawKey)) ELSE ""

\* The settings of a job, as far as the two builders differ: the audio
\* selector of the input and the audio descriptions of the outputs
buildHlsSettingsWithAudio(inputUri, destS3) ==
  [FileInput |-> inputUri, Destination |-> destS3, AudioSelectors |-> TRUE]
buildHlsSettingsVideoOnly(inputUri, destS3) ==
  [FileInput |-> inputUri, Destination |-> destS3, AudioSelectors |-> FALSE]

\* The URIs the handler builds for the record in progress
inputUri == "s3://" \o sourceBucket \o "/" \o s3Key
destS3 ==
  "s3://" \o (IF OUTPUT_BUCKET # "" THEN OUTPUT_BUCKET ELSE sourceBucket) \o "/" \o videoDir

\* One request of the handler to MediaConvert, with its answer
McRequest(op, settings, ok, message) ==
  [op |-> op, rec |-> idx, arg |-> settings, ok |-> ok, message |-> message]

\* results.push({ key: rawKey, jobId, manifestGuess })
JobEntry(jobId) ==
  [key |-> s3Key, jobId |-> jobId,
   manifestGuess |-> "https://"
                     \o (IF OUTPUT_BUCKET # "" THEN OUTPUT_BUCKET ELSE sourceBucket)
                     \o ".s3." \o AWS_REGION \o ".amazonaws.com/" \o videoDir \o videoName
                     \o ".m3u8",
   error |-> NoError]

\* results.push({ key: rec.s3.object.key, error: String(err?.message || err) })
ErrorEntry(message) ==
  [key |-> records[idx], jobId |-> NoError, manifestGuess |-> NoError, error |-> message]

\* The id MediaConvert gives the job it created
NewJobId == "job-" \o ToString(Len(log) + 1)

McInit ==
  /\ records \in McBatches
  /\ idx = 1
  /\ pc = "loop"
  /\ processingResults = <<>>
  /\ s3Key = ""
  /\ videoDir = ""
  /\ videoName = ""
  /\ tempInput = ""
  /\ tempOutput = ""
  /\ tier = 1
  /\ segments = 0
  /\ queue = <<>>
  /\ segmentFiles = {}
  /\ uploadedFiles = <<>>
  /\ error = NoError
  /\ now = 0
  /\ store = {}
  /\ disk = {}
  /\ log = <<>>
  /\ runs = <<>>

\* The variables the MediaConvert handler has no counterpart of
mcFrame == <<records, tempInput, tempOutput, tier, segments, segmentFiles, uploadedFiles, now,
             store, disk, runs>>

\* The outer catch block: the error entry is pushed and the loop goes on
McCatch(message) ==
  /\ processingResults' = Append(processingResults, ErrorEntry(message))
  /\ error' = message
  /\ idx' = idx + 1
  /\ pc' = "loop"

\* decodeURIComponent throws inside the try block
McDecodeThrows ==
  /\ pc = "loop"
  /\ idx <= Len(records)
  /\ ~sourceKey(idx).ok
  /\ McCatch("URI malformed")
  /\ UNCHANGED <<mcFrame, s3Key, videoDir, videoName, queue, log>>

\* if (!rawKey.toLowerCase().endsWith(".mp4")) continue
McSkipNotMp4 ==
  /\ pc = "loop"
  /\ idx <= Len(records)
  /\ sourceKey(idx).ok
  /\ ~endsWith(toLowerCase(sourceKey(idx).value), ".mp4")
  /\ idx' = idx + 1
  /\ UNCHANGED <<mcFrame, pc, processingResults, s3Key, videoDir, videoName, queue, error, log>>

\* The key is an .mp4: base, dir and the URIs are formed
McStart ==
  /\ pc = "loop"
  /\ idx <= Len(records)
  /\ sourceKey(idx).ok
  /\ endsWith(toLowerCase(sourceKey(idx).value), ".mp4")
  /\ s3Key' = sourceKey(idx).value
  /\ videoName' = basename(sourceKey(idx).value, ".mp4")
  /\ videoDir' = dirOf(sourceKey(idx).value)
  /\ error' = NoError
  /\ pc' = "describe"
  /\ UNCHANGED <<mcFrame, idx, processingResults, queue, log>>

\* discover.send(new DescribeEndpointsCommand(...)) answers
McDescribeOk ==
  /\ pc = "describe"
  /\ log' = Append(log, McRequest("DescribeEndpoints", "", TRUE, ""))
  /\ pc' = "create"
  /\ UNCHANGED <<mcFrame, idx, processingResults, s3Key, videoDir, videoName, queue, error>>

\* Faulty variant of McDescribeFail: the error is swallowed, no entry is pushed
McDescribeFail_NoEntry ==
  /\ pc = "describe"
  /\ log' = Append(log, McRequest("DescribeEndpoints", "", FALSE, "Access Denied"))
  /\ idx' = idx + 1
  /\ pc' = "loop"
  /\ UNCHANGED <<mcFrame, processingResults, s3Key, videoDir, videoName, queue, error>>

\* discover.send fails: the outer catch block
McDescribeFail ==
  /\ pc = "describe"
  /\ log' = Append(log, McRequest("DescribeEndpoints", "", FALSE, "Access Denied"))
  /\ McCatch("Access Denied")
  /\ UNCHANGED <<mcFrame, s3Key, videoDir, videoName, queue>>

\* The first CreateJob, with the with-audio settings, succeeds
McCreateOk ==
  /\ pc = "create"
  /\ log' = Append(log, McRequest("CreateJob", buildHlsSettingsWithAudio(inputUri, destS3),
                                  TRUE, ""))
  /\ processingResults' = Append(processingResults, JobEntry(NewJobId))
  /\ idx' = idx + 1
  /\ pc' = "loop"
  /\ UNCHANGED <<mcFrame, s3Key, videoDir, videoName, queue, error>>

\* The first CreateJob fails: an audio-related message leads to the
\* video-only attempt, any other is thrown again to the outer catch block
McCreateFail ==
  /\ pc = "create"
  /\ \E message \in McErrorMessages :
       /\ log' = Append(log, McRequest("CreateJob",
                                       buildHlsSettingsWithAudio(inputUri, destS3),
                                       FALSE, message))
       /\ IF isAudioError(message)
            THEN /\ error' = message
                 /\ pc' = "retry"
                 /\ UNCHANGED <<idx, processingResults>>
            ELSE McCatch(message)
  /\ UNCHANGED <<mcFrame, s3Key, videoDir, videoName, queue>>

\* The second CreateJob, with the video-only settings, succeeds
McRetryOk ==
  /\ pc = "retry"
  /\ log' = Append(log, McRequest("CreateJob", buildHlsSettingsVideoOnly(inputUri, destS3),
                                  TRUE, ""))
  /\ processingResults' = Append(processingResults, JobEntry(NewJobId))
  /\ idx' = idx + 1
  /\ pc' = "loop"
  /\ UNCHANGED <<mcFrame, s3Key, videoDir, videoName, queue, error>>

\* Faulty variant of McRetryFail: a failed video-only attempt is made again
McRetryFail_RetriesAgain ==
  /\ pc = "retry"
  /\ \E message \in McErrorMessages :
       /\ log' = Append(log, McRequest("CreateJob",
                                       buildHlsSettingsVideoOnly(inputUri, destS3),
                                       FALSE, message))
       /\ error' = message
  /\ UNCHANGED <<mcFrame, idx, pc, processingResults, s3Key, videoDir, videoName, queue>>

\* The second CreateJob fails: the error leaves the inner catch block for
\* the outer one, whatever its message
McRetryFail ==
  /\ pc = "retry"
  /\ \E message \in McErrorMessages :
       /\ log' = Append(log, McRequest("CreateJob",
                                       buildHlsSettingsVideoOnly(inputUri, destS3),
                                       FALSE, message))
       /\ McCatch(message)
  /\ UNCHANGED <<mcFrame, s3Key, videoDir, videoName, queue>>

\* return { ok: true, results }
McReturn ==
  /\ pc = "loop"
  /\ idx > Len(records)
  /\ queue' = <<[ok |-> TRUE, results |-> processingResults]>>
  /\ pc' = "returned"
  /\ UNCHANGED <<mcFrame, idx, processingResults, s3Key, videoDir, videoName, error, log>>

McNext ==
  \/ McDecodeThrows
  \/ McSkipNotMp4
  \/ McStart
  \/ McDescribeOk
  \/ McDescribeFail
  \/ McCreateOk
  \/ McCreateFail
  \/ McRetryOk
  \/ McRetryFail
  \/ McReturn

McSpec == McInit /\ [][McNext]_vars

(***************************************************************************)
(* C32. In the MediaConvert handler at most two CreateJob requests are     *)
(* submitted per record: the second, with the video-only settings, only    *)
(* after the first, with the with-audio settings, failed with an           *)
(* audio-related message; a failure of the second, or a non-audio failure  *)
(* of the first, is never retried: the record is over.                     *)
(***************************************************************************)
\* The CreateJob requests made for record r, in order
CreateJobsOf(r) == SelectSeq(log, LAMBDA e : e.rec = r /\ e.op = "CreateJob")

C32_AtMostOneVideoOnlyRetry ==
  \A r \in DOMAIN records :
    LET jobs == CreateJobsOf(r)
    IN  /\ Len(jobs) <= 2
        /\ Len(jobs) >= 1 => jobs[1].arg.AudioSelectors
        /\ Len(jobs) = 2 =>
             /\ ~jobs[1].ok
             /\ isAudioError(jobs[1].message)
             /\ ~jobs[2].arg.AudioSelectors
             /\ jobs[2].arg.FileInput = jobs[1].arg.FileInput
        /\ (Len(jobs) = 2 /\ ~jobs[2].ok) => r < idx
        /\ (Len(jobs) = 1 /\ ~jobs[1].ok /\ ~isAudioError(jobs[1].message)) => r < idx

\* C32 witness: the handler returned after a record whose with-audio job
\* failed with an audio-related message and whose video-only job failed too,
\* itself with an audio-related message.
C32_Witness ==
  /\ pc = "returned"
  /\ \E r \in DOMAIN records :
       /\ Len(CreateJobsOf(r)) = 2
       /\ ~CreateJobsOf(r)[2].ok
       /\ isAudioError(CreateJobsOf(r)[2].message)

(***************************************************************************)
(* C33. In the MediaConvert handler every record whose decoded key ends in *)
(* ".mp4" (in any case) contributes exactly one entry to results, a job    *)
(* entry or an error entry, never both and never two; records with other   *)
(* keys contribute none; and the handler returns ok = true, without        *)
(* throwing, whatever the outcomes of the records are.                     *)
(***************************************************************************)
\* The key of record r decodes, to a key that ends in ".mp4" in any case
DecodesToMp4(r) == sourceKey(r).ok /\ EndsInMp4(sourceKey(r).value)

\* The key of record r cannot be decoded
Undecodable(r) == ~sourceKey(r).ok

\* The records the handler is through with
McDone == {r \in DOMAIN records : r < idx}

\* An entry of results is a job entry or an error entry, not both
IsJobEntry(entry) ==
  entry.jobId # NoError /\ entry.manifestGuess # NoError /\ entry.error = NoError
IsErrorEntry(entry) ==
  entry.jobId = NoError /\ entry.manifestGuess = NoError /\ entry.error # NoError

\* The k-th record, in record order, of a set of records
KthOf(S, k) == CHOOSE r \in S : Cardinality({q \in S : q <= r}) = k

\* results holds one entry for each record of the set S, in record order,
\* and none besides
OneEntryForEachOf(S) ==
  /\ Len(processingResults) = Cardinality(S)
  /\ \A k \in DOMAIN processingResults :
       LET entry == processingResults[k]
           r == KthOf(S, k)
       IN  /\ IsJobEntry(entry) \/ IsErrorEntry(entry)
           /\ IsJobEntry(entry) => sourceKey(r).ok /\ entry.key = sourceKey(r).value
           /\ IsErrorEntry(entry) => entry.key = records[r]

\* The handler does not throw, and what it returns is ok = true with results
ReturnsOk ==
  /\ pc # "thrown"
  /\ pc = "returned" => queue = <<[ok |-> TRUE, results |-> processingResults]>>

\* C33 as stated: violated, a record whose key cannot be decoded has no
\* decoded key ending in ".mp4", yet it contributes an error entry.
C33_OneEntryPerMp4Record ==
  /\ OneEntryForEachOf({r \in McDone : DecodesToMp4(r)})
  /\ ReturnsOk

\* C33 as amended: the records that contribute one entry are those whose key
\* decodes to an .mp4 key and those whose key cannot be decoded (an error
\* entry); the others contribute none; the handler returns ok = true.
C33_OneEntryPerMp4OrUndecodableRecord ==
  /\ OneEntryForEachOf({r \in McDone : DecodesToMp4(r) \/ Undecodable(r)})
  /\ \A k \in DOMAIN processingResults :
       Undecodable(KthOf({r \in McDone : DecodesToMp4(r) \/ Undecodable(r)}, k))
         => IsErrorEntry(processingResults[k])
  /\ ReturnsOk

\* C33 witness: the handler returned ok = true for a batch of a record with
\* an undecodable key without the .mp4 suffix, which gave an error entry,
\* and an .mp4 record, which gave a job entry.
C33_Witness ==
  /\ pc = "returned"
  /\ Len(records) = 2
  /\ Undecodable(1) /\ ~EndsInMp4(records[1]) /\ DecodesToMp4(2)
  /\ Len(processingResults) = 2
  /\ IsErrorEntry(processingResults[1]) /\ IsJobEntry(processingResults[2])
  /\ queue[1].ok

(***************************************************************************)
(* The batch script (part_003), from its loop over MP4_LIST to its end:    *)
(* process_file starts every conversion as a background job and waits for  *)
(* the oldest job once CONCURRENT_JOBS are active.  The script runs under  *)
(* set -e.  MP4_LIST is held in records, PROCESSED in idx, PIDS in queue,  *)
(* ACTIVE_JOBS in segments, the conversions started in runs, the clock of  *)
(* date +%s in now, TEMP_DIR (while it exists) in disk, the exit status in *)
(* error, and the major version of the bash that runs the script in tier:  *)
(* from bash 4.1 on, set -e also ends the script when a (( )) command      *)
(* evaluates to 0; the bash 3.2 of macOS goes on.                          *)
(***************************************************************************)
\* CONCURRENT_JOBS=2
CONCURRENT_JOBS == 2

\* The most files in MP4_LIST
MaxFiles == 3

\* $$ : the process id of the script, also inside its background jobs
ScriptPid == 4242

\* TEMP_DIR="/tmp/hls_batch_$(date +%s)", the script starting at second 0
TEMP_DIR == "/tmp/hls_batch_0"

\* The .mp4 keys under the prefix, in the order aws s3 ls lists them
ListedKeys == <<"a/v.mp4", "a/w.mp4", "b/v.mp4">>

\* The listings: the keys present, in that order, at least one
Listings ==
  {SelectSeq(ListedKeys, LAMBDA key : key \in present) :
     present \in (SUBSET {ListedKeys[i] : i \in 1..MaxFiles}) \ {{}}}

\* The versions of bash: 3 (macOS /bin/bash 3.2) and 5
BashVersions == {3, 5}

\* set -e ends the script on a (( )) command whose value is 0
ArithmeticEndsScript(value) == value = 0 /\ tier >= 4

\* The paths convert_mp4_to_hls forms for a key at a given second
temp_input(s3_key, second) ==
  TEMP_DIR \o "/" \o basename(s3_key, ".mp4") \o "_" \o ToString(second) \o "_"
  \o ToString(ScriptPid) \o ".mp4"
temp_output(s3_key) ==
  TEMP_DIR \o "/" \o basename(s3_key, ".mp4") \o "_hls_" \o ToString(ScriptPid)

ScriptInit ==
  /\ records \in Listings
  /\ tier \in BashVersions
  /\ idx = 0
  /\ pc = "read"
  /\ queue = <<>>
  /\ segments = 0
  /\ runs = <<>>
  /\ now = 0
  /\ disk = {File(TEMP_DIR, "directory")}
  /\ error = NoError
  /\ log = <<>>
  /\ processingResults = <<>>
  /\ s3Key = ""
  /\ videoDir = ""
  /\ videoName = ""
  /\ tempInput = ""
  /\ tempOutput = ""
  /\ segmentFiles = {}
  /\ uploadedFiles = <<>>
  /\ store = {}

\* The variables the script has no counterpart of
scriptFrame == <<records, tier, processingResults, s3Key, videoDir, videoName, tempInput,
                 tempOutput, segmentFiles, uploadedFiles, store>>

\* set -e: a command failed, the script ends there with status 1; its
\* background jobs go on, TEMP_DIR stays
ScriptExits ==
  /\ pc' = "exited"
  /\ error' = "1"

\* while read -r file: a line is read, ((PROCESSED++))
ReadFile ==
  /\ pc = "read"
  /\ idx < Len(records)
  /\ idx' = idx + 1
  /\ IF ArithmeticEndsScript(idx)
       THEN ScriptExits
       ELSE pc' = "process_file" /\ UNCHANGED error
  /\ UNCHANGED <<scriptFrame, queue, segments, runs, now, disk, log>>

\* process_file, lines 162-166: the conversion is started in the background,
\* its pid appended to PIDS, ((ACTIVE_JOBS++))
StartJob ==
  /\ pc = "process_file"
  /\ \E tick \in 0..MaxTick :
       /\ now' = now + tick
       /\ runs' = Append(runs, [rec |-> idx, key |-> records[idx],
                                tempInput |-> temp_input(records[idx], now + tick),
                                tempOutput |-> temp_output(records[idx]),
                                status |-> "running", waited |-> FALSE])
  /\ queue' = Append(queue, Len(runs) + 1)
  /\ segments' = segments + 1
  /\ log' = Append(log, [op |-> "start", rec |-> idx, arg |-> records[idx], ok |-> TRUE])
  /\ IF ArithmeticEndsScript(segments)
       THEN ScriptExits
       ELSE /\ pc' = IF segments + 1 >= CONCURRENT_JOBS THEN "wait" ELSE "read"
            /\ UNCHANGED error
  /\ UNCHANGED <<scriptFrame, idx, disk>>

\* A conversion ends: with status 0 after its uploads and its own rm -rf,
\* or with a non-zero status at its first failed command
JobEnds ==
  /\ \E j \in DOMAIN runs :
       /\ runs[j].status = "running"
       /\ \E ok \in BOOLEAN :
            /\ runs' = [runs EXCEPT ![j].status = IF ok THEN "done" ELSE "failed"]
            /\ log' = Append(log, [op |-> "end", rec |-> runs[j].rec, arg |-> runs[j].key,
                                   ok |-> ok])
  /\ UNCHANGED <<scriptFrame, idx, pc, queue, segments, now, disk, error>>

\* The job a wait returns for is marked as waited for
Waited(j) == [runs EXCEPT ![j].waited = TRUE]

\* Faulty variant of WaitFirstJob: the first pid is dropped without a wait
WaitFirstJob_NoWait ==
  /\ pc = "wait"
  /\ queue' = Tail(queue)
  /\ segments' = segments - 1
  /\ pc' = "read"
  /\ UNCHANGED <<scriptFrame, idx, runs, now, disk, error, log>>

\* process_file, lines 169-173: wait ${PIDS[0]} returns the status of the
\* job; non-zero ends the script (set -e), else the pid is removed and
\* ((ACTIVE_JOBS--))
WaitFirstJob ==
  /\ pc = "wait"
  /\ runs[Head(queue)].status # "running"
  /\ runs' = Waited(Head(queue))
  /\ IF runs[Head(queue)].status = "failed"
       THEN ScriptExits /\ UNCHANGED <<queue, segments>>
       ELSE /\ queue' = Tail(queue)
            /\ segments' = segments - 1
            /\ IF ArithmeticEndsScript(segments)
                 THEN ScriptExits
                 ELSE pc' = "read" /\ UNCHANGED error
  /\ UNCHANGED <<scriptFrame, idx, now, disk, log>>

\* The list is at its end: the loop over the remaining pids begins
EndOfList ==
  /\ pc = "read"
  /\ idx = Len(records)
  /\ pc' = "remaining"
  /\ UNCHANGED <<scriptFrame, idx, queue, segments, runs, now, disk, error, log>>

\* for pid in "${PIDS[@]}"; do wait $pid; done: the pids are taken in order
\* (queue keeps those not yet waited for)
WaitRemainingJob ==
  /\ pc = "remaining"
  /\ queue # <<>>
  /\ runs[Head(queue)].status # "running"
  /\ runs' = Waited(Head(queue))
  /\ queue' = Tail(queue)
  /\ IF runs[Head(queue)].status = "failed"
       THEN ScriptExits
       ELSE UNCHANGED <<pc, error>>
  /\ UNCHANGED <<scriptFrame, idx, segments, now, disk, log>>

\* rm -rf "$TEMP_DIR", the last command
RemoveTempDir ==
  /\ pc = "remaining"
  /\ queue = <<>>
  /\ disk' = rm(disk, TEMP_DIR)
  /\ log' = Append(log, [op |-> "rm", rec |-> idx, arg |-> TEMP_DIR, ok |-> TRUE])
  /\ error' = "0"
  /\ pc' = "done"
  /\ UNCHANGED <<scriptFrame, idx, queue, segments, runs, now>>

ScriptNext ==
  \/ ReadFile
  \/ StartJob
  \/ JobEnds
  \/ WaitFirstJob
  \/ EndOfList
  \/ WaitRemainingJob
  \/ RemoveTempDir

ScriptSpec == ScriptInit /\ [][ScriptNext]_vars

(***************************************************************************)
(* C34. In the batch script, after each call of process_file returns at    *)
(* most CONCURRENT_JOBS - 1 conversions are still running, so at no time   *)
(* more than CONCURRENT_JOBS (2) conversions run concurrently; and every   *)
(* started conversion has been waited for before the final removal of      *)
(* TEMP_DIR.                                                               *)
(***************************************************************************)
\* The conversions that are running
RunningJobs == {j \in DOMAIN runs : runs[j].status = "running"}

\* The position in log of the start and of the end of the conversion of
\* record r (0 when it has not happened)
EventAt(r, op) == Max({p \in DOMAIN log : log[p].rec = r /\ log[p].op = op} \cup {0})

C34_AtMostTwoConversionsAtOnce ==
  /\ Cardinality(RunningJobs) <= CONCURRENT_JOBS
  /\ pc \in {"read", "remaining"} => Cardinality(RunningJobs) <= CONCURRENT_JOBS - 1
  /\ TEMP_DIR \notin {f.path : f \in disk} =>
       /\ Len(runs) = Len(records)
       /\ \A j \in DOMAIN runs : runs[j].waited /\ runs[j].status # "running"

\* C34 witness: the script removed TEMP_DIR after three conversions, the
\* second started while the first was running and the third while the
\* second was running.
C34_Witness ==
  /\ pc = "done"
  /\ Len(runs) = 3
  /\ TEMP_DIR \notin {f.path : f \in disk}
  /\ EventAt(2, "start") < EventAt(1, "end")
  /\ EventAt(3, "start") < EventAt(2, "end")

(***************************************************************************)
(* C35. In the batch script two conversions that run concurrently never    *)
(* share a temp input file path or a temp output directory, also when the  *)
(* two source keys have the same base name in different directories and    *)
(* the conversions start within the same second.                           *)
(***************************************************************************)
\* C35: violated, the conversions of a/v.mp4 and b/v.mp4 run at once on the
\* same temp output directory, and on the same temp input file when they
\* start in the same second.
C35_ConcurrentConversionsHaveOwnTempPaths ==
  \A i, j \in RunningJobs :
    i # j =>
      /\ runs[i].tempInput # runs[j].tempInput
      /\ runs[i].tempOutput # runs[j].tempOutput

(***************************************************************************)
(* C36. In the batch script the failure of one file's conversion (a failed *)
(* download or ffmpeg, a non-zero return) does not prevent the remaining   *)
(* listed files from being started and converted, and the script still     *)
(* removes TEMP_DIR at the end.                                            *)
(***************************************************************************)
\* The script has ended: by its last command, or by set -e
ScriptEnded == pc \in {"done", "exited"}

\* C36: violated, the wait for a failed conversion returns its non-zero
\* status and set -e ends the script there: the files not yet read are
\* never started and TEMP_DIR stays.
C36_FailedConversionDoesNotStopTheBatch ==
  (ScriptEnded /\ \E j \in DOMAIN runs : runs[j].status = "failed") =>
    /\ Len(runs) = Len(records)
    /\ TEMP_DIR \notin {f.path : f \in disk}

====
